---------------------------- MODULE Spec2Model ----------------------------
\* Verification model of mbsync (isync): the synchronization engine with
\* its state file and journal (src/src/sync.c, src/src/sync_state.c) and
\* the IMAP driver's command queues (src/src/drv_imap.c).
\*
\* Conventions.  Sides are F = 0 and N = 1 as in sync.h; a C array x[2] is
\* a function over Side.  Bit sets (message flags, S_, ST_, OPEN_, OP_ and
\* M_ bits) are sets of strings named after the bits.  A linked list of
\* sync records is an arena (srecs, indexed by allocation order) plus the
\* list order (order, a sequence of arena indices).  A pointer is the
\* index it points to, or 0 for NULL.
EXTENDS Integers, Sequences, FiniteSets, TLC

\* ------------------------------------------------------------------------
\* Bounds of the model
\* ------------------------------------------------------------------------
MaxRuns == 3
MaxCrashes == 1
MaxEnv == 1
MaxCmds == 3
MaxInProgress == 2
MaxUid == 4
MaxFetchUid == 2
MaxSends == 2
MaxName == 3
MaxBytes == 3
MaxUtf7 == 4
MaxShift == 6
MaxPieces == 4
MaxLineLen == 2
MaxRecs == 3
MaxMatch == 21
MaxGone == 6
MaxSyncs == 3
MaxProcs == 3
MaxOpens == 4
MaxLimit == 2
MaxSize == 2
MaxNew == 2
MaxTrash == 2
MaxBoxes == 2
MaxNotifiers == 3
MaxWakeups == 2
MaxNow == 2

\* ------------------------------------------------------------------------
\* Basic vocabulary
\* ------------------------------------------------------------------------
F == 0
N == 1
Side == {F, N}
Inv(t) == 1 - t
Pair(a, b) == [t \in Side |-> IF t = F THEN a ELSE b]

AllFlags == {"F", "S", "T"}
F_FLAGGED == {"F"}
F_SEEN == {"S"}
F_DELETED == {"T"}

S_DUMMY(t) == IF t = F THEN {"DUMMY_F"} ELSE {"DUMMY_N"}
S_GONE(t) == IF t = F THEN {"GONE_F"} ELSE {"GONE_N"}
S_DEL(t) == IF t = F THEN {"DEL_F"} ELSE {"DEL_N"}
S_LOGGED == {"EXPIRE", "EXPIRED", "PENDING", "DUMMY_F", "DUMMY_N", "SKIPPED"}

Has(set, bits) == (set \cap bits) # {}
Max2(a, b) == IF a < b THEN b ELSE a
\* The value e under the name B gives it: LET v == e IN B(v)
Bind(e, B(_)) == B(e)
SetToSortedSeq(S) ==
  LET RECURSIVE go(_)
      go(R) == IF R = {} THEN << >>
               ELSE LET m == CHOOSE x \in R : \A y \in R : x <= y
                    IN <<m>> \o go(R \ {m})
  IN go(S)

\* ------------------------------------------------------------------------
\* Data structures
\* ------------------------------------------------------------------------
\* sync_rec_t after nfzalloc()
NewSrec ==
  [uid |-> Pair(0, 0), msg |-> Pair(0, 0), status |-> {}, flags |-> {},
   pflags |-> {}, aflags |-> Pair({}, {}), dflags |-> Pair({}, {}), tuid |-> 0]

\* A journal line: the entry character, the two leading numbers, and the
\* further arguments (n: a number, s and s2: bit sets).
JEnt(c, a, b, n, s, s2) == [c |-> c, a |-> a, b |-> b, n |-> n, s |-> s, s2 |-> s2]

NoStateFile ==
  [exists |-> FALSE, uidval |-> Pair(0, 0), maxuid |-> Pair(0, 0), maxxfuid |-> 0,
   recs |-> << >>]
NoJournal == [exists |-> FALSE, ents |-> << >>]

UIDVAL_BAD == -1

\* sync_vars_t after nfzalloc() and the assignments of sync_boxes()
NewSvars ==
  [srecs |-> << >>, order |-> << >>,
   msgs |-> Pair(<< >>, << >>), new_msgs |-> Pair(0, 0),
   trashed_msgs |-> Pair({}, {}),
   state |-> Pair({}, {}), opts |-> Pair({}, {}), ops |-> Pair({}, {}),
   ret |-> {}, existing |-> FALSE, replayed |-> FALSE, any_expiring |-> FALSE,
   jfp |-> FALSE, nfp |-> FALSE,
   new_pending |-> Pair(0, 0), flags_pending |-> Pair(0, 0), trash_pending |-> Pair(0, 0),
   maxuid |-> Pair(0, 0), oldmaxuid |-> Pair(0, 0), newmaxuid |-> Pair(0, 0),
   uidval |-> Pair(UIDVAL_BAD, UIDVAL_BAD), newuidval |-> Pair(0, 0),
   finduid |-> Pair(0, 0), maxxfuid |-> 0,
   any_new |-> Pair(FALSE, FALSE)]

\* ------------------------------------------------------------------------
\* sync_state.c: records, UIDs and TUIDs
\* ------------------------------------------------------------------------
SetSrec(sv, i, r) == [sv EXCEPT !.srecs[i] = r]
SetMsg(sv, t, m, r) == [sv EXCEPT !.msgs[t][m] = r]

\* Position of arena index i in the list order (0 if absent)
PosOf(order, i) ==
  IF \E p \in 1..Len(order) : order[p] = i
  THEN CHOOSE p \in 1..Len(order) : order[p] = i
  ELSE 0

\* *svars->srecadd = srec; svars->srecadd = &srec->next; svars->nsrecs++
AppendSrec(sv, r) ==
  [sv EXCEPT !.srecs = Append(@, r), !.order = Append(@, Len(sv.srecs) + 1)]

\* assign_uid() that leaves the TUID in the entry
assign_uid_keeping_tuid(sv, i, t, uid) ==
  LET srec == sv.srecs[i]
      nmax == IF uid = sv.newmaxuid[t] + 1 THEN uid ELSE sv.newmaxuid[t]
      r1 == [srec EXCEPT !.uid[t] = uid]
      r2 == IF uid # 0
            THEN IF "UPGRADE" \in srec.status
                 THEN [r1 EXCEPT !.flags = (srec.flags \cup srec.aflags[t]) \ srec.dflags[t],
                                 !.aflags[t] = {}, !.dflags[t] = {}]
                 ELSE [r1 EXCEPT !.flags = srec.pflags]
            ELSE r1
      r3 == [r2 EXCEPT !.status = @ \ {"PENDING", "UPGRADE"}]
  IN [SetSrec(sv, i, r3) EXCEPT !.newmaxuid[t] = nmax]

assign_uid(sv, i, t, uid) ==
  LET srec == sv.srecs[i]
      nmax == IF uid = sv.newmaxuid[t] + 1 THEN uid ELSE sv.newmaxuid[t]
      r1 == [srec EXCEPT !.uid[t] = uid]
      r2 == IF uid # 0
            THEN IF "UPGRADE" \in srec.status
                 THEN [r1 EXCEPT !.flags = (srec.flags \cup srec.aflags[t]) \ srec.dflags[t],
                                 !.aflags[t] = {}, !.dflags[t] = {}]
                 ELSE [r1 EXCEPT !.flags = srec.pflags]
            ELSE r1
      r3 == [r2 EXCEPT !.status = @ \ {"PENDING", "UPGRADE"}, !.tuid = 0]
  IN [SetSrec(sv, i, r3) EXCEPT !.newmaxuid[t] = nmax]

\* upgrade_srec() that does not mark the new entry for the purge
upgrade_srec_unmarked(sv, i, t) ==
  LET srec == sv.srecs[i]
      ni == Len(sv.srecs) + 1
      p == PosOf(sv.order, i)
      norder == SubSeq(sv.order, 1, p) \o <<ni>> \o SubSeq(sv.order, p + 1, Len(sv.order))
      m == srec.msg[t]
      nstatus == (srec.status \ (S_DUMMY(F) \cup S_DUMMY(N))) \cup {"PENDING", "UPGRADE"}
      osrec == [srec EXCEPT !.uid[t] = 0, !.msg[t] = 0, !.status = nstatus]
      nsrec == [NewSrec EXCEPT !.uid[t] = srec.uid[t], !.msg[t] = m,
                               !.status = nstatus \cap (S_DEL(F) \cup S_DEL(N))]
      sv1 == [sv EXCEPT !.srecs = Append([@ EXCEPT ![i] = osrec], nsrec), !.order = norder]
  IN IF m # 0 THEN [sv1 EXCEPT !.msgs[t][m].srec = ni] ELSE sv1

\* upgrade_srec() that leaves the UID of the placeholder in the old entry
upgrade_srec_keeping(sv, i, t) ==
  LET srec == sv.srecs[i]
      ni == Len(sv.srecs) + 1
      p == PosOf(sv.order, i)
      norder == SubSeq(sv.order, 1, p) \o <<ni>> \o SubSeq(sv.order, p + 1, Len(sv.order))
      m == srec.msg[t]
      nstatus == (srec.status \ (S_DUMMY(F) \cup S_DUMMY(N))) \cup {"PENDING", "UPGRADE"}
      osrec == [srec EXCEPT !.msg[t] = 0, !.status = nstatus]
      nsrec == [NewSrec EXCEPT !.uid[t] = srec.uid[t], !.msg[t] = m,
                               !.status = {"PURGE"} \cup (nstatus \cap (S_DEL(F) \cup S_DEL(N))),
                               !.aflags[t] = F_DELETED]
      sv1 == [sv EXCEPT !.srecs = Append([@ EXCEPT ![i] = osrec], nsrec), !.order = norder]
  IN IF m # 0 THEN [sv1 EXCEPT !.msgs[t][m].srec = ni] ELSE sv1

upgrade_srec(sv, i, t) ==
  LET srec == sv.srecs[i]
      ni == Len(sv.srecs) + 1
      p == PosOf(sv.order, i)
      norder == SubSeq(sv.order, 1, p) \o <<ni>> \o SubSeq(sv.order, p + 1, Len(sv.order))
      m == srec.msg[t]
      nstatus == (srec.status \ (S_DUMMY(F) \cup S_DUMMY(N))) \cup {"PENDING", "UPGRADE"}
      osrec == [srec EXCEPT !.uid[t] = 0, !.msg[t] = 0, !.status = nstatus]
      nsrec == [NewSrec EXCEPT !.uid[t] = srec.uid[t], !.msg[t] = m,
                               !.status = {"PURGE"} \cup (nstatus \cap (S_DEL(F) \cup S_DEL(N))),
                               !.aflags[t] = F_DELETED]
      sv1 == [sv EXCEPT !.srecs = Append([@ EXCEPT ![i] = osrec], nsrec), !.order = norder]
  IN IF m # 0 THEN [sv1 EXCEPT !.msgs[t][m].srec = ni] ELSE sv1

\* ------------------------------------------------------------------------
\* sync_state.c: the journal writer
\* ------------------------------------------------------------------------
\* DFlags & FORCEJOURNAL
ForceJournal(w) == w.conf.forcejournal

jFprintf(w, ent) ==
  [(IF w.sv.jfp THEN w
    ELSE [w EXCEPT !.newfile = [exists |-> TRUE, data |-> NoStateFile],
                   !.journal = IF w.sv.replayed /\ w.journal.exists
                               THEN w.journal
                               ELSE [exists |-> TRUE, ents |-> << >>],
                   !.sv.jfp = TRUE, !.sv.nfp = TRUE])
   EXCEPT !.journal.ents = Append(@, ent), !.JCount = @ + 1]

JLOG(w, ent) == jFprintf(w, ent)
PC_JLOG(w, ent) == IF ForceJournal(w) THEN jFprintf(w, ent) ELSE w

\* JLOG( "%c %u %u %u", "<>"[t], ... ) followed by assign_uid()
ASSIGN_UID(w, i, t, nuid) ==
  [JLOG(w, JEnt(IF t = F THEN "<" ELSE ">", w.sv.srecs[i].uid[F], w.sv.srecs[i].uid[N],
                nuid, {}, {}))
   EXCEPT !.sv = assign_uid(@, i, t, nuid)]

\* assign_tuid() that forgets to journal the TUID
assign_tuid_unlogged(w, i) ==
  [w EXCEPT !.rng = w.rng + 1, !.sv.srecs[i].tuid = w.rng + 1]

\* The bytes of the TUID come from arc4_getbyte(); the model draws the next
\* unused token.
assign_tuid(w, i) ==
  JLOG([w EXCEPT !.rng = w.rng + 1, !.sv.srecs[i].tuid = w.rng + 1],
       JEnt("#", w.sv.srecs[i].uid[F], w.sv.srecs[i].uid[N], w.rng + 1, {}, {}))

\* First live message with the TUID among positions lo..hi of msgs (0 if none)
FindTuid(msgs, lo, hi, tuid) ==
  LET C == {m \in lo..hi : "DEAD" \notin msgs[m].status /\ msgs[m].tuid # 0
                           /\ msgs[m].tuid = tuid}
  IN IF C = {} THEN 0 ELSE CHOOSE m \in C : \A x \in C : m <= x

\* match_tuids( svars, t, msgs ): msgs is the position of the first message
\* to consider (Len + 1 for an empty tail).  Returns the world and num_lost.
match_tuids(w0, t, msgs) ==
  LET RECURSIVE go(_, _, _, _)
      go(w, p, ntmsg, lost) ==
        IF p > Len(w.sv.order) THEN [w |-> w, num_lost |-> lost]
        ELSE
          LET i == w.sv.order[p]
              srec == w.sv.srecs[i]
              len == Len(w.sv.msgs[t])
          IN IF "DEAD" \in srec.status THEN go(w, p + 1, ntmsg, lost)
             ELSE IF srec.uid[t] = 0 /\ srec.tuid # 0
             THEN LET m1 == IF ntmsg = 0 THEN 0
                            ELSE FindTuid(w.sv.msgs[t], ntmsg, len, srec.tuid)
                      m2 == IF m1 # 0 THEN m1
                            ELSE FindTuid(w.sv.msgs[t], msgs,
                                          IF ntmsg = 0 THEN len ELSE ntmsg - 1, srec.tuid)
                  IN IF m2 = 0
                     THEN go([JLOG(w, JEnt("&", srec.uid[F], srec.uid[N], 0, {}, {}))
                                EXCEPT !.sv.srecs[i].tuid = 0], p + 1, ntmsg, lost + 1)
                     ELSE LET w1 == [w EXCEPT !.sv.msgs[t][m2].srec = i,
                                              !.sv.srecs[i].msg[t] = m2]
                              nt == IF m2 < len THEN m2 + 1 ELSE 0
                          IN go(ASSIGN_UID(w1, i, t, w.sv.msgs[t][m2].uid), p + 1, nt, lost)
             ELSE go(w, p + 1, ntmsg, lost)
  IN go(w0, 1, 0, 0)

\* ------------------------------------------------------------------------
\* sync_state.c: load_state() and save_state()
\* ------------------------------------------------------------------------
\* One record line of the state file, as load_state() parses it
ParseStateRec(line) ==
  LET st1 == IF line.m1 = "<" THEN S_DUMMY(F)
             ELSE IF line.m1 = ">" THEN S_DUMMY(N) ELSE {}
      st2 == IF line.m2 = "^" THEN {"SKIPPED"}
             ELSE IF line.m2 = "~" THEN {"EXPIRE", "EXPIRED"} ELSE st1
  IN [NewSrec EXCEPT !.uid = line.uid, !.status = st2, !.flags = line.flags]

\* One record line of the state file, as save_state() prints it
FormatStateRec(srec) ==
  [uid |-> srec.uid,
   m1 |-> IF Has(srec.status, S_DUMMY(F)) THEN "<"
          ELSE IF Has(srec.status, S_DUMMY(N)) THEN ">" ELSE "",
   m2 |-> IF "SKIPPED" \in srec.status THEN "^"
          ELSE IF "EXPIRED" \in srec.status THEN "~" ELSE "",
   flags |-> srec.flags]

\* The record an entry of the journal refers to: the search starts at the
\* record of the previous entry and wraps around (0 if there is none).
FindSrec(sv, cursor, t1, t2) ==
  LET len == Len(sv.order)
      match(p) == sv.srecs[sv.order[p]].uid[F] = t1 /\ sv.srecs[sv.order[p]].uid[N] = t2
      cp == IF cursor = 0 THEN len + 1 ELSE PosOf(sv.order, cursor)
      A == {p \in cp..len : match(p)}
      B == {p \in 1..(cp - 1) : match(p)}
  IN IF A # {} THEN sv.order[CHOOSE p \in A : \A x \in A : p <= x]
     ELSE IF B # {} THEN sv.order[CHOOSE p \in B : \A x \in B : p <= x]
     ELSE 0

\* The effect of one journal entry on the record it refers to
ReplayOnSrec(sv, i, e) ==
  LET srec == sv.srecs[i]
  IN CASE e.c = "-" -> [sv |-> SetSrec(sv, i, [srec EXCEPT !.status = {"DEAD"}]), cur |-> i]
       [] e.c = "#" -> [sv |-> SetSrec(sv, i, [srec EXCEPT !.tuid = e.n]), cur |-> i]
       [] e.c = "&" -> [sv |-> SetSrec(sv, i, [srec EXCEPT !.tuid = 0]), cur |-> i]
       [] e.c = "<" -> [sv |-> assign_uid(sv, i, F, e.n), cur |-> i]
       [] e.c = ">" -> [sv |-> assign_uid(sv, i, N, e.n), cur |-> i]
       [] e.c = "*" -> [sv |-> SetSrec(sv, i, [srec EXCEPT !.flags = e.s]), cur |-> i]
       [] e.c = "P" -> [sv |-> SetSrec(sv, i, [srec EXCEPT !.aflags = Pair({}, {}),
                                  !.status = (@ \ {"PURGE"}) \cup {"PURGED"}]), cur |-> i]
       [] e.c = "%" -> [sv |-> SetSrec(sv, i, [srec EXCEPT !.pflags = e.s]), cur |-> i]
       [] e.c = "~" ->
            LET nst == (srec.status \ S_LOGGED) \cup e.s
                sv1 == SetSrec(sv, i, [srec EXCEPT !.status = nst])
            IN [sv |-> IF "EXPIRED" \in nst /\ sv.maxxfuid < srec.uid[F]
                       THEN [sv1 EXCEPT !.maxxfuid = srec.uid[F]] ELSE sv1,
                cur |-> i]
       [] e.c = "_" -> [sv |-> SetSrec(sv, i, [srec EXCEPT !.status =
                                  {"PENDING"} \cup (IF srec.uid[F] = 0 THEN S_DUMMY(F)
                                                    ELSE S_DUMMY(N))]), cur |-> i]
       [] e.c = "^" ->
            LET tn == IF Has(srec.status, S_DUMMY(F)) THEN F ELSE N
                sv1 == SetSrec(sv, i, [srec EXCEPT !.pflags = e.s])
            IN [sv |-> upgrade_srec(sv1, i, tn), cur |-> Len(sv.srecs) + 1]
       [] e.c = "$" ->
            LET tn == IF srec.uid[F] = 0 THEN F ELSE N
            IN [sv |-> SetSrec(sv, i, [srec EXCEPT !.aflags[tn] = e.s, !.dflags[tn] = e.s2]),
                cur |-> i]

\* The loop over the journal's entries.  applied_dead records whether an
\* entry was applied to a record that was Dead (an observation, not state
\* of the program).
ReplayJournal(sv0, ents) ==
  LET RECURSIVE go(_, _, _, _)
      go(sv, k, cursor, dead) ==
        IF k > Len(ents) THEN [ok |-> TRUE, sv |-> sv, applied_dead |-> dead]
        ELSE
          LET e == ents[k]
          IN CASE e.c = "N" -> go([sv EXCEPT !.maxuid[e.a] = e.b, !.newmaxuid[e.a] = e.b],
                                  k + 1, cursor, dead)
               [] e.c = "F" -> go([sv EXCEPT !.finduid[e.a] = e.b], k + 1, cursor, dead)
               [] e.c = "T" -> go([sv EXCEPT !.trashed_msgs[e.a] = @ \cup {e.b}],
                                  k + 1, cursor, dead)
               [] e.c = "|" -> go([sv EXCEPT !.uidval = Pair(e.a, e.b)], k + 1, cursor, dead)
               [] e.c = "+" ->
                    LET sv1 == AppendSrec(sv, [NewSrec EXCEPT !.uid = Pair(e.a, e.b),
                                                              !.status = {"PENDING"}])
                    IN go([sv1 EXCEPT !.newmaxuid = Pair(Max2(sv.newmaxuid[F], e.a),
                                                         Max2(sv.newmaxuid[N], e.b))],
                          k + 1, Len(sv1.srecs), dead)
               [] OTHER ->
                    Bind(FindSrec(sv, cursor, e.a, e.b), LAMBDA i :
                      IF i = 0 THEN [ok |-> FALSE, sv |-> sv, applied_dead |-> dead]
                      ELSE Bind(ReplayOnSrec(sv, i, e), LAMBDA r :
                             go(r.sv, k + 1, r.cur, dead \/ "DEAD" \in sv.srecs[i].status)))
  IN go(sv0, 1, 0, FALSE)

\* load_state(): read the state file, then replay the journal if both the
\* journal and the new state file exist.
load_state(w) ==
  LET sf == w.statefile
      RECURSIVE rd(_, _)
      rd(sv, k) == IF k > Len(sf.recs) THEN sv
                   ELSE rd(AppendSrec(sv, ParseStateRec(sf.recs[k])), k + 1)
      rep == w.journal.exists /\ w.newfile.exists
      done(r) == [ok |-> r.ok, applied_dead |-> r.applied_dead,
                  sv |-> [r.sv EXCEPT !.replayed = rep]]
      replay(sv2) == IF rep THEN ReplayJournal(sv2, w.journal.ents)
                     ELSE [ok |-> TRUE, sv |-> sv2, applied_dead |-> FALSE]
  IN Bind(IF sf.exists
          THEN [rd(NewSvars, 1) EXCEPT !.uidval = sf.uidval, !.maxuid = sf.maxuid,
                                       !.maxxfuid = sf.maxxfuid, !.existing = TRUE]
          ELSE NewSvars, LAMBDA sv1 :
       Bind(replay([sv1 EXCEPT !.newmaxuid = sv1.maxuid]), done))

\* The contents save_state() prints into the new state file
StateFileOf(sv) ==
  LET RECURSIVE wr(_)
      wr(p) == IF p > Len(sv.order) THEN << >>
               ELSE LET srec == sv.srecs[sv.order[p]]
                    IN IF "DEAD" \in srec.status THEN wr(p + 1)
                       ELSE <<FormatStateRec(srec)>> \o wr(p + 1)
  IN [exists |-> TRUE, uidval |-> sv.uidval, maxuid |-> sv.maxuid,
      maxxfuid |-> sv.maxxfuid, recs |-> wr(1)]

\* ------------------------------------------------------------------------
\* sync.c: helpers
\* ------------------------------------------------------------------------
\* Every store supports every flag of the model: get_supported_flags()
good_flags(t) == AllFlags
sanitize_flags(tflags, t) == tflags \cap good_flags(t)

\* A command handed to the driver of side t.  jpos is the number of journal
\* entries this run had written when the command was issued.
NewCmd(op) == [op |-> op, srec |-> 0, msg |-> 0, uid |-> 0, add |-> {}, del |-> {},
               flags |-> {}, tuid |-> 0, minimal |-> FALSE, to_trash |-> FALSE, cb |-> "",
               minuid |-> 0, maxuid |-> 0, excs |-> {}, finduid |-> 0, pairuid |-> 0, newuid |-> 0,
               size |-> 0, cid |-> 0, jpos |-> 0]
Dispatch(w, t, cmd) ==
  [w EXCEPT !.q[t] = Append(@, [cmd EXCEPT !.jpos = w.JCount])]

check_cancel(sv) == Has(sv.state[F] \cup sv.state[N], {"SENT_CANCEL", "CANCELED"})

\* The flags of the message a record points to on side t ({} without one)
MsgOf(sv, i, t) == sv.srecs[i].msg[t]
MsgFlags(sv, i, t) == sv.msgs[t][sv.srecs[i].msg[t]].flags

\* ------------------------------------------------------------------------
\* sync.c: box_loaded(), the loop over the old entries
\* ------------------------------------------------------------------------
\* The first inner loop: note deletions and upgrade flagged placeholders
OldEntryUpgrade(w0, i) ==
  LET RECURSIVE go(_, _, _)
      go(w, t, nsrec) ==
        IF t > N THEN [w |-> w, nsrec |-> nsrec]
        ELSE
          LET srec == w.sv.srecs[i]
              m == srec.msg[t]
              w1 == IF m # 0 /\ Has(w.sv.msgs[t][m].flags, F_DELETED)
                    THEN [w EXCEPT !.sv.srecs[i].status = @ \cup S_DEL(t)] ELSE w
              s1 == w1.sv.srecs[i]
          IN IF "UPGRADE" \in w.sv.ops[t] /\ Has(s1.status, S_DUMMY(t))
                /\ s1.uid[Inv(t)] # 0 /\ m # 0 /\ Has(w.sv.msgs[t][m].flags, F_FLAGGED)
             THEN LET mf == w.sv.msgs[t][m].flags
                      sflags == (mf \ (F_SEEN \cup F_FLAGGED)) \cup (mf \cap s1.flags \cap F_SEEN)
                  IN Bind(JLOG([w1 EXCEPT !.sv.srecs[i].pflags = sflags],
                               JEnt("^", s1.uid[F], s1.uid[N], 0, sflags, {})), LAMBDA w3 :
                       go([w3 EXCEPT !.sv = upgrade_srec(w3.sv, i, t)], t + 1,
                          Len(w3.sv.srecs) + 1))
             ELSE go(w1, t + 1, nsrec)
  IN go(w0, F, i)

\* srec->aflags[t] and srec->dflags[t] from the source's flags (doflags:)
DoFlags(w, i, t, sflags0) ==
  LET srec == w.sv.srecs[i]
      xt == w.conf.expire_side
      s1 == sanitize_flags(sflags0, t)
      s2 == IF t # xt /\ Has(srec.status, {"EXPIRE", "EXPIRED"}) THEN s1 \ F_DELETED ELSE s1
      s3 == IF Has(srec.status, S_DUMMY(Inv(t)))
            THEN (s2 \ (F_SEEN \cup F_FLAGGED)) \cup (s2 \cap srec.flags \cap F_SEEN)
            ELSE IF Has(srec.status, S_DUMMY(t)) THEN s2 \ F_FLAGGED ELSE s2
  IN IF "FLAGS" \in w.sv.ops[t]
     THEN [w EXCEPT !.sv.srecs[i].aflags[t] = s3 \ srec.flags,
                    !.sv.srecs[i].dflags[t] = srec.flags \ s3]
     ELSE w

\* The second inner loop: decide what to do in direction t
OldEntryDir(w, i, t, del) ==
  LET srec == w.sv.srecs[i]
      xt == w.conf.expire_side
      ot == Inv(t)
  IN IF "UPGRADE" \in srec.status
     THEN IF srec.uid[t] # 0 THEN DoFlags(w, i, t, srec.pflags)
          ELSE IF srec.msg[ot] # 0 THEN DoFlags(w, i, t, MsgFlags(w.sv, i, ot))
          ELSE w
     ELSE IF del[t] THEN [w EXCEPT !.sv.srecs[i].status = @ \cup S_GONE(t)]
     ELSE IF srec.uid[t] = 0 THEN w
     ELSE IF del[ot]
     THEN IF t # xt /\ Has(srec.status, {"EXPIRE", "EXPIRED"})
          THEN LET forced == ~({"EXPIRE", "EXPIRED"} \subseteq srec.status)
                   nst == srec.status \cup {"EXPIRE", "EXPIRED"}
               IN [JLOG(IF forced
                        THEN JLOG([w EXCEPT !.sv.srecs[i].status = nst],
                                  JEnt("~", srec.uid[F], srec.uid[N], 0, nst, {}))
                        ELSE w,
                        JEnt(IF xt = F THEN "<" ELSE ">", srec.uid[F], srec.uid[N], 0, {}, {}))
                   EXCEPT !.sv.srecs[i].uid[xt] = 0]
          ELSE IF "GONE" \in w.sv.ops[t]
               THEN [w EXCEPT !.sv.srecs[i].aflags[t] = F_DELETED,
                              !.sv.srecs[i].status = @ \cup {"DELETE"}]
               ELSE w
     ELSE IF srec.msg[ot] = 0 THEN w
     ELSE DoFlags(w, i, t, MsgFlags(w.sv, i, ot))

OldEntry(w, i) ==
  LET srec == w.sv.srecs[i]
      no == [t \in Side |-> srec.msg[t] = 0 /\ "PAIRED" \in w.sv.opts[t]]
      del == [t \in Side |-> no[t] /\ srec.uid[t] # 0]
  IN IF no[F] /\ no[N]
     THEN [w |-> JLOG([w EXCEPT !.sv.srecs[i].status = {"DEAD"}],
                      JEnt("-", srec.uid[F], srec.uid[N], 0, {}, {})),
           nsrec |-> i]
     ELSE Bind(OldEntryUpgrade(w, i), LAMBDA r :
            [w |-> OldEntryDir(OldEntryDir(r.w, i, F, del), i, N, del), nsrec |-> r.nsrec])

\* for (srec = svars->srecs; srec; srec = srec->next), skipping Dead records
\* and the placeholder records created on the way
OldEntries(w0) ==
  LET RECURSIVE go(_, _)
      go(w, p) ==
        IF p > Len(w.sv.order) THEN w
        ELSE LET i == w.sv.order[p]
             IN IF "DEAD" \in w.sv.srecs[i].status THEN go(w, p + 1)
                ELSE Bind(OldEntry(w, i), LAMBDA r :
                       go(r.w, PosOf(r.w.sv.order, r.nsrec) + 1))
  IN go(w0, 1)

\* ------------------------------------------------------------------------
\* sync.c: box_loaded(), the loop over the new messages
\* ------------------------------------------------------------------------
\* Stands for the largest uint: every UID and every size of the model is
\* smaller
UINT_MAX == 99

\* !(tmsg->flags & F_FLAGGED) && ((tmsg->flags & F_SEEN) || expire_unread > 0)
Unimportant(w, flags) ==
  ~Has(flags, F_FLAGGED) /\ (Has(flags, F_SEEN) \/ w.conf.expire_unread > 0)

AnyExpunge(w) == "EXPUNGE" \in (w.sv.ops[F] \cup w.sv.ops[N])

\* The tail of the loop body, from the check for doomed messages on.
\* Returns the world; any_new[t] is raised in w.sv.any_new.
NewMsgTail(w, t, m, i) ==
  LET tmsg == w.sv.msgs[Inv(t)][m]
      srec == w.sv.srecs[i]
  IN IF AnyExpunge(w) /\ Has(tmsg.flags, F_DELETED)
     THEN [JLOG(w, JEnt("-", srec.uid[F], srec.uid[N], 0, {}, {}))
           EXCEPT !.sv.msgs[Inv(t)][m].srec = 0, !.sv.srecs[i].status = {"DEAD"}]
     ELSE [(IF tmsg.size > w.conf.max_size[t]
               /\ ~Has(srec.status, S_DUMMY(F) \cup S_DUMMY(N))
            THEN JLOG([w EXCEPT !.sv.srecs[i].status = @ \cup S_DUMMY(t)],
                      JEnt("_", srec.uid[F], srec.uid[N], 0, {}, {}))
            ELSE w)
           EXCEPT !.sv.any_new[t] = TRUE]

\* The loop body for a message that has a sync record
NewMsgKnown(w0, t, m, topping) ==
  LET ot == Inv(t)
      xt == w0.conf.expire_side
      tmsg == w0.sv.msgs[ot][m]
      i == tmsg.srec
      w == IF topping /\ w0.sv.newmaxuid[ot] < tmsg.uid
           THEN [w0 EXCEPT !.sv.newmaxuid[ot] = tmsg.uid] ELSE w0
      srec == w.sv.srecs[i]
  IN IF "SKIPPED" \in srec.status
     THEN IF "UPGRADE" \notin w.sv.ops[t] THEN w
          ELSE NewMsgTail(JLOG([w EXCEPT !.sv.srecs[i].status = {"PENDING"} \cup S_DUMMY(t)],
                               JEnt("_", srec.uid[F], srec.uid[N], 0, {}, {})), t, m, i)
     ELSE IF "PENDING" \notin srec.status
     THEN IF srec.uid[t] # 0 THEN w
          ELSE IF "OLD" \notin w.sv.ops[t] THEN w
          ELSE IF t # xt \/ "EXPIRED" \notin srec.status THEN w
          ELSE IF Unimportant(w, tmsg.flags) THEN w
          ELSE NewMsgTail(JLOG([w EXCEPT !.sv.srecs[i].status = @ \cup {"PENDING"}],
                               JEnt("~", srec.uid[F], srec.uid[N], 0, {"PENDING"}, {})),
                          t, m, i)
     ELSE IF "UPGRADE" \in srec.status
     THEN IF ("EXPUNGE" \in w.sv.ops[t]
              /\ Has((srec.pflags \cup srec.aflags[t]) \ srec.dflags[t], F_DELETED))
             \/ ("EXPUNGE" \in w.sv.ops[ot]
                 /\ Has((tmsg.flags \cup srec.aflags[ot]) \ srec.dflags[ot], F_DELETED))
          THEN LET nst == (srec.status \ {"PENDING", "UPGRADE"}) \cup S_DUMMY(t)
               IN JLOG([w EXCEPT !.sv.srecs[i].status = nst],
                       JEnt("~", srec.uid[F], srec.uid[N], 0, nst \cap S_LOGGED, {}))
          ELSE [w EXCEPT !.sv.msgs[ot][m].status = @ \cup {"FLAGS"}, !.sv.any_new[t] = TRUE]
     ELSE NewMsgTail(w, t, m, i)

\* The loop body for a message without sync record that does not raise
\* newmaxuid
NewMsgUnknown_untracked(w, t, m, topping0) ==
  LET ot == Inv(t)
      xt == w.conf.expire_side
      tmsg == w.sv.msgs[ot][m]
      topping == topping0 /\ ~(t # xt \/ tmsg.uid > w.sv.maxxfuid)
      skip == IF tmsg.uid <= w.sv.maxuid[ot]
              THEN "OLD" \notin w.sv.ops[t] \/ (topping /\ Unimportant(w, tmsg.flags))
              ELSE "NEW" \notin w.sv.ops[t]
      i == Len(w.sv.srecs) + 1
      sv1 == AppendSrec(w.sv, [NewSrec EXCEPT !.status = {"PENDING"}, !.uid[ot] = tmsg.uid,
                                              !.msg[ot] = m])
      sv2 == [sv1 EXCEPT !.msgs[ot][m].srec = i]
  IN [w |-> IF skip THEN w
            ELSE NewMsgTail(JLOG([w EXCEPT !.sv = sv2],
                                 JEnt("+", sv2.srecs[i].uid[F], sv2.srecs[i].uid[N], 0, {}, {})),
                            t, m, i),
      topping |-> topping]

\* The loop body for a message without sync record.  Returns the world and
\* the new value of topping.
NewMsgUnknown(w, t, m, topping0) ==
  LET ot == Inv(t)
      xt == w.conf.expire_side
      tmsg == w.sv.msgs[ot][m]
      topping == topping0 /\ ~(t # xt \/ tmsg.uid > w.sv.maxxfuid)
      skip == IF tmsg.uid <= w.sv.maxuid[ot]
              THEN "OLD" \notin w.sv.ops[t] \/ (topping /\ Unimportant(w, tmsg.flags))
              ELSE "NEW" \notin w.sv.ops[t]
      i == Len(w.sv.srecs) + 1
      sv1 == AppendSrec(w.sv, [NewSrec EXCEPT !.status = {"PENDING"}, !.uid[ot] = tmsg.uid,
                                              !.msg[ot] = m])
      sv2 == [sv1 EXCEPT !.msgs[ot][m].srec = i,
                         !.newmaxuid[ot] = Max2(@, tmsg.uid)]
  IN [w |-> IF skip THEN w
            ELSE NewMsgTail(JLOG([w EXCEPT !.sv = sv2],
                                 JEnt("+", sv2.srecs[i].uid[F], sv2.srecs[i].uid[N], 0, {}, {})),
                            t, m, i),
      topping |-> topping]

\* for (t = 0; t < 2; t++) for (tmsg = svars->msgs[t^1]; tmsg; tmsg = tmsg->next)
NewMessages(w0) ==
  LET RECURSIVE go(_, _, _, _)
      go(w, t, m, topping) ==
        IF t > N THEN w
        ELSE IF m > Len(w.sv.msgs[Inv(t)]) THEN go(w, t + 1, 1, TRUE)
        ELSE LET tmsg == w.sv.msgs[Inv(t)][m]
             IN IF "DEAD" \in tmsg.status THEN go(w, t, m + 1, topping)
                ELSE IF tmsg.srec # 0
                THEN go(NewMsgKnown(w, t, m, topping), t, m + 1, topping)
                ELSE Bind(NewMsgUnknown(w, t, m, topping), LAMBDA r :
                       go(r.w, t, m + 1, r.topping))
  IN go([w0 EXCEPT !.sv.any_new = Pair(FALSE, FALSE)], F, 1, TRUE)

\* ------------------------------------------------------------------------
\* sync.c: box_loaded(), expiration
\* ------------------------------------------------------------------------
\* The flags a record's expire-side message will have; "none" if the record
\* does not take part in the expiration
AliveFlags(w, i) ==
  LET xt == w.conf.expire_side
      ot == Inv(xt)
      srec == w.sv.srecs[i]
      nf0 == w.sv.msgs[xt][srec.msg[xt]].flags
      sflags == w.sv.msgs[ot][srec.msg[ot]].flags
      aflags == (sflags \ srec.flags) \cap (F_SEEN \cup F_FLAGGED)
      dflags == (srec.flags \ sflags) \cap F_SEEN
      nf1 == (((nf0 \ (F_SEEN \cup F_FLAGGED)) \cup (nf0 \cap srec.flags \cap F_SEEN))
              \ dflags) \cup aflags
      fin(nf) == IF ~Has(nf, F_DELETED) \/ Has(srec.status, {"EXPIRE", "EXPIRED"})
                 THEN [alive |-> TRUE, flags |-> nf] ELSE [alive |-> FALSE, flags |-> {}]
      none == [alive |-> FALSE, flags |-> {}]
  IN IF "DEAD" \in srec.status \/ srec.uid[ot] = 0 THEN none
     ELSE IF "PENDING" \notin srec.status
     THEN IF srec.msg[xt] = 0 THEN none
          ELSE IF Has(srec.status, S_DUMMY(xt))
          THEN IF srec.msg[ot] = 0 THEN none
               ELSE fin((nf1 \cup srec.aflags[xt]) \ srec.dflags[xt])
          ELSE fin((nf0 \cup srec.aflags[xt]) \ srec.dflags[xt])
     ELSE IF "UPGRADE" \in srec.status
     THEN fin((srec.pflags \cup srec.aflags[xt]) \ srec.dflags[xt])
     ELSE fin(sflags)

\* arecs[] after qsort(): the alive records by ascending UID of the side
\* that is not expired
AliveRecs(w) ==
  LET ot == Inv(w.conf.expire_side)
  IN Bind({i \in 1..Len(w.sv.srecs) : PosOf(w.sv.order, i) # 0 /\ AliveFlags(w, i).alive},
          LAMBDA A :
       Bind(SetToSortedSeq({w.sv.srecs[i].uid[ot] : i \in A}), LAMBDA uids :
         [k \in 1..Len(uids) |-> CHOOSE i \in A : w.sv.srecs[i].uid[ot] = uids[k]]))

\* The first loop over arecs[] not counting the important messages
ExpireMark_uncounted(w0, arecs) ==
  LET xt == w0.conf.expire_side
      RECURSIVE go(_, _, _, _)
      go(w, k, todel, unseen) ==
        IF k > Len(arecs) THEN [w |-> w, unseen |-> unseen]
        ELSE
          Bind(AliveFlags(w0, arecs[k]).flags, LAMBDA nflags :
            LET i == arecs[k]
                srec == w.sv.srecs[i]
                seen == Has(nflags, F_SEEN)
                flagged == Has(nflags, F_FLAGGED)
                unseen1 == IF ~flagged /\ ~seen /\ todel > 0 THEN unseen + 1 ELSE unseen
                important == flagged \/ ~(seen \/ w.conf.expire_unread > 0)
            IN IF important THEN go(w, k + 1, todel, unseen1)
               ELSE IF todel > 0
                       \/ {"EXPIRE", "EXPIRED"} \subseteq srec.status
                       \/ (Has(srec.status, {"EXPIRE", "EXPIRED"})
                           /\ Has(w.sv.msgs[xt][srec.msg[xt]].flags, F_DELETED))
               THEN go([w EXCEPT !.sv.srecs[i].status = @ \cup {"NEXPIRE"}],
                       k + 1, todel - 1, unseen1)
               ELSE go(w, k + 1, todel, unseen1))
  IN go(w0, 1, Len(arecs) - w0.conf.max_messages, 0)

\* The first loop over arecs[]: mark the records to expire (S_NEXPIRE) and
\* count the unseen ones
ExpireMark(w0, arecs) ==
  LET xt == w0.conf.expire_side
      RECURSIVE go(_, _, _, _)
      go(w, k, todel, unseen) ==
        IF k > Len(arecs) THEN [w |-> w, unseen |-> unseen]
        ELSE
          Bind(AliveFlags(w0, arecs[k]).flags, LAMBDA nflags :
            LET i == arecs[k]
                srec == w.sv.srecs[i]
                seen == Has(nflags, F_SEEN)
                flagged == Has(nflags, F_FLAGGED)
                unseen1 == IF ~flagged /\ ~seen /\ todel > 0 THEN unseen + 1 ELSE unseen
                important == flagged \/ ~(seen \/ w.conf.expire_unread > 0)
            IN IF important THEN go(w, k + 1, todel - 1, unseen1)
               ELSE IF todel > 0
                       \/ {"EXPIRE", "EXPIRED"} \subseteq srec.status
                       \/ (Has(srec.status, {"EXPIRE", "EXPIRED"})
                           /\ Has(w.sv.msgs[xt][srec.msg[xt]].flags, F_DELETED))
               THEN go([w EXCEPT !.sv.srecs[i].status = @ \cup {"NEXPIRE"}],
                       k + 1, todel - 1, unseen1)
               ELSE go(w, k + 1, todel, unseen1))
  IN go(w0, 1, Len(arecs) - w0.conf.max_messages, 0)

\* The second loop over arecs[]: begin the expiration transactions
ExpireBegin(w0, arecs) ==
  LET ot == Inv(w0.conf.expire_side)
      RECURSIVE go(_, _)
      go(w, k) ==
        IF k > Len(arecs) THEN w
        ELSE
          LET i == arecs[k]
              srec == w.sv.srecs[i]
              nex == "NEXPIRE" \in srec.status
          IN IF "PENDING" \notin srec.status
             THEN IF nex # ("EXPIRED" \in srec.status) /\ nex # ("EXPIRE" \in srec.status)
                  THEN LET nst == IF nex THEN srec.status \cup {"EXPIRE"}
                                  ELSE srec.status \ {"EXPIRE"}
                       IN go(JLOG([w EXCEPT !.sv.srecs[i].status = nst],
                                  JEnt("~", srec.uid[F], srec.uid[N], 0, nst \cap S_LOGGED, {})),
                             k + 1)
                  ELSE go(w, k + 1)
             ELSE IF nex
             THEN LET nst == {"EXPIRE", "EXPIRED"}
                  IN go([JLOG([w EXCEPT !.sv.srecs[i].status = nst],
                              JEnt("~", srec.uid[F], srec.uid[N], 0, nst, {}))
                         EXCEPT !.sv.maxxfuid = Max2(@, srec.uid[ot]),
                                !.sv.msgs[ot][srec.msg[ot]].srec = 0], k + 1)
             ELSE go(w, k + 1)
  IN go(w0, 1)

\* The whole expiration block.  failed: too many unread messages
Expiration(w) ==
  IF ~w.sv.any_expiring THEN [w |-> w, failed |-> FALSE]
  ELSE Bind(AliveRecs(w), LAMBDA arecs :
         Bind(ExpireMark(w, arecs), LAMBDA r :
           IF w.conf.expire_unread < 0 /\ r.unseen * 2 > w.conf.max_messages
           THEN [w |-> r.w, failed |-> TRUE]
           ELSE [w |-> ExpireBegin(r.w, arecs), failed |-> FALSE]))

\* ------------------------------------------------------------------------
\* sync.c: flag propagation
\* ------------------------------------------------------------------------
\* (shifted_bit(status, S_EXPIRE, S_EXPIRED) ^ status) & S_EXPIRED
ExpireOngoing(status) == ("EXPIRE" \in status) # ("EXPIRED" \in status)

flags_set_p2(w, i, t) ==
  LET srec == w.sv.srecs[i]
  IN IF "PURGE" \in srec.status
     THEN [JLOG(w, JEnt("P", srec.uid[F], srec.uid[N], 0, {}, {}))
           EXCEPT !.sv.srecs[i].status = (@ \ {"PURGE"}) \cup {"PURGED"}]
     ELSE IF "DELETE" \in srec.status THEN w
     ELSE
       LET nflags == (srec.flags \cup srec.aflags[t]) \ srec.dflags[t]
           ex == "EXPIRE" \in srec.status
           exd == "EXPIRED" \in srec.status
           nex == "NEXPIRE" \in srec.status
           nst == IF nex = ex
                  THEN IF nex THEN srec.status \cup {"EXPIRED"} ELSE srec.status \ {"EXPIRED"}
                  ELSE IF nex THEN srec.status \cup {"EXPIRE"} ELSE srec.status \ {"EXPIRE"}
       IN Bind(IF srec.flags # nflags
               THEN [JLOG(w, JEnt("*", srec.uid[F], srec.uid[N], 0, nflags, {}))
                     EXCEPT !.sv.srecs[i].flags = nflags]
               ELSE w, LAMBDA w1 :
            IF t = w.conf.expire_side /\ ex # exd
            THEN JLOG([(IF nex = ex /\ nex
                        THEN [w1 EXCEPT !.sv.maxxfuid = Max2(@, srec.uid[Inv(t)])]
                        ELSE w1)
                       EXCEPT !.sv.srecs[i].status = nst],
                      JEnt("~", srec.uid[F], srec.uid[N], 0, nst \cap S_LOGGED, {}))
            ELSE w1)

\* The body of the flags loop of box_loaded() for record i and side t
SyncFlags(w, i, t) ==
  LET srec == w.sv.srecs[i]
      xt == w.conf.expire_side
      m == srec.msg[t]
      mflags == IF m # 0 THEN w.sv.msgs[t][m].flags ELSE {}
      a0 == srec.aflags[t]
      d0 == srec.dflags[t]
      purging == Has(srec.status, {"DELETE", "PURGE"})
      trig == ~purging /\ t = xt /\ ExpireOngoing(srec.status)
      a1 == IF trig /\ "NEXPIRE" \in srec.status THEN a0 \cup F_DELETED ELSE a0
      d1 == IF trig /\ "NEXPIRE" \notin srec.status THEN d0 \cup F_DELETED ELSE d0
      doomed == "EXPUNGE" \in w.sv.ops[t] /\ Has((mflags \cup a1) \ d1, F_DELETED)
                /\ (~w.conf.trash[t] \/ w.conf.trash_only_new[t])
      w1 == IF doomed
            THEN [w EXCEPT !.sv.srecs[i].aflags[t] = @ \cap F_DELETED,
                           !.sv.srecs[i].dflags[t] = {}]
            ELSE w
      a2 == IF doomed THEN a1 \cap F_DELETED ELSE a1
      d2 == IF doomed THEN {} ELSE d1
      known == m # 0 /\ "FLAGS" \in w.sv.msgs[t][m].status
      a3 == IF known THEN a2 \ mflags ELSE a2
      d3 == IF known THEN d2 \cap mflags ELSE d2
  IN IF srec.uid[t] = 0 \/ Has(srec.status, S_GONE(t)) THEN w
     ELSE IF purging /\ a0 = {} THEN w
     ELSE IF a3 \cup d3 # {}
     THEN Dispatch([w1 EXCEPT !.sv.flags_pending[t] = @ + 1], t,
                   [NewCmd("set_msg_flags") EXCEPT !.srec = i, !.msg = m, !.uid = srec.uid[t],
                                                   !.add = a3, !.del = d3])
     ELSE flags_set_p2(w1, i, t)

\* for (srec = svars->srecs; srec; srec = srec->next) for (t = 0; t < 2; t++)
SyncAllFlags(w0) ==
  LET RECURSIVE go(_, _)
      go(w, p) ==
        IF p > Len(w.sv.order) THEN w
        ELSE LET i == w.sv.order[p]
             IN IF "DEAD" \in w.sv.srecs[i].status THEN go(w, p + 1)
                ELSE go(SyncFlags(SyncFlags(w, i, F), i, N), p + 1)
  IN go(w0, 1)

\* ------------------------------------------------------------------------
\* sync.c: closing the boxes and committing the state
\* ------------------------------------------------------------------------
\* save_state() that writes the state file in place
save_state_in_place(w) ==
  IF ~w.sv.jfp /\ ~w.sv.replayed THEN [w EXCEPT !.pc = "done"]
  ELSE [w EXCEPT !.statefile = StateFileOf(w.sv),
                 !.newfile = [exists |-> TRUE, data |-> StateFileOf(w.sv)],
                 !.sv.nfp = TRUE, !.pc = "written"]

\* save_state() up to and including Fclose( svars->nfp, 1 ).  The rename()
\* and the unlink() that follow are the actions Rename and Unlink.
save_state(w) ==
  IF ~w.sv.jfp /\ ~w.sv.replayed THEN [w EXCEPT !.pc = "done"]
  ELSE [w EXCEPT !.newfile = [exists |-> TRUE, data |-> StateFileOf(w.sv)],
                 !.sv.nfp = TRUE, !.pc = "written"]

\* The pruning loop that clears the UIDs of a record it means to kill
PruneSrec_clearing(w, i) ==
  LET srec == w.sv.srecs[i]
      gone(t) == srec.uid[t] = 0 \/ Has(srec.status, S_GONE(t))
  IN IF "DEAD" \notin srec.status /\ gone(N) /\ gone(F)
     THEN [w EXCEPT !.sv.srecs[i].uid = Pair(0, 0)]
     ELSE w

\* The pruning loop of box_closed_p2() for the record i
PruneSrec(w, i) ==
  LET srec == w.sv.srecs[i]
      xt == w.conf.expire_side
      ot == Inv(xt)
      gone(t) == srec.uid[t] = 0 \/ Has(srec.status, S_GONE(t))
      expired == "EXPIRED" \in srec.status /\ gone(xt)
                 /\ w.sv.maxuid[ot] >= srec.uid[ot] /\ w.sv.maxxfuid >= srec.uid[ot]
  IN IF "DEAD" \in srec.status THEN w
     ELSE IF expired \/ (gone(N) /\ gone(F))
     THEN [PC_JLOG(w, JEnt("-", srec.uid[F], srec.uid[N], 0, {}, {}))
           EXCEPT !.sv.srecs[i].status = {"DEAD"}]
     ELSE IF gone(N)
     THEN IF srec.uid[N] # 0 /\ Has(srec.status, S_DEL(F))
          THEN [PC_JLOG(w, JEnt(">", srec.uid[F], srec.uid[N], 0, {}, {}))
                  EXCEPT !.sv.srecs[i].uid[N] = 0]
          ELSE w
     ELSE IF srec.uid[F] # 0 /\ Has(srec.status, S_GONE(F)) /\ Has(srec.status, S_DEL(N))
     THEN [PC_JLOG(w, JEnt("<", srec.uid[F], srec.uid[N], 0, {}, {}))
             EXCEPT !.sv.srecs[i].uid[F] = 0]
     ELSE w

\* maxuid taken from the messages the box holds now
CommitMaxuid_loaded(w, t) ==
  LET uids == {w.sv.msgs[t][m].uid : m \in 1..Len(w.sv.msgs[t])}
  IN [w EXCEPT !.sv.maxuid[t] = IF uids = {} THEN 0 ELSE CHOOSE u \in uids : \A v \in uids : v <= u]

\* svars->maxuid[t] = svars->newmaxuid[t], with the N entry
CommitMaxuid(w, t) ==
  LET w1 == [w EXCEPT !.sv.maxuid[t] = w.sv.newmaxuid[t]]
  IN IF w1.sv.maxuid[t] # w1.sv.oldmaxuid[t]
     THEN PC_JLOG(w1, JEnt("N", t, w1.sv.maxuid[t], 0, {}, {})) ELSE w1

\* box_closed_p2() that does not wait for the other side to be closed
box_closed_p2_alone(w0, t) ==
  LET w1 == [w0 EXCEPT !.sv.state[t] = @ \cup {"CLOSED"}]
      RECURSIVE prune(_, _)
      prune(w, p) == IF p > Len(w.sv.order) THEN w
                     ELSE prune(PruneSrec(w, w.sv.order[p]), p + 1)
  IN IF FALSE THEN w1
     ELSE save_state(prune(CommitMaxuid(CommitMaxuid(w1, F), N), 1))

box_closed_p2(w0, t) ==
  LET w1 == [w0 EXCEPT !.sv.state[t] = @ \cup {"CLOSED"}]
      RECURSIVE prune(_, _)
      prune(w, p) == IF p > Len(w.sv.order) THEN w
                     ELSE prune(PruneSrec(w, w.sv.order[p]), p + 1)
  IN IF "CLOSED" \notin w1.sv.state[Inv(t)] THEN w1
     ELSE save_state(prune(CommitMaxuid(CommitMaxuid(w1, F), N), 1))

\* sync_close() not waiting for the new messages of the other side
sync_close_early(w, t) ==
  LET sv == w.sv
      ot == Inv(t)
  IN IF ~({"FOUND_NEW", "SENT_TRASH"} \subseteq sv.state[t]) \/ sv.trash_pending[t] # 0
        \/ ~({"SENT_NEW", "SENT_FLAGS"} \subseteq sv.state[ot])
        \/ sv.flags_pending[ot] # 0
     THEN w
     ELSE IF "CLOSING" \in sv.state[t] THEN w
     ELSE LET w1 == [w EXCEPT !.sv.state[t] = @ \cup {"CLOSING"}]
          IN IF Has(sv.ops[t], {"EXPUNGE", "EXPUNGE_SOLO"}) /\ "TRASH_BAD" \notin sv.state[t]
             THEN Dispatch(w1, t, NewCmd("close_box"))
             ELSE box_closed_p2(w1, t)

sync_close(w, t) ==
  LET sv == w.sv
      ot == Inv(t)
  IN IF ~({"FOUND_NEW", "SENT_TRASH"} \subseteq sv.state[t]) \/ sv.trash_pending[t] # 0
        \/ ~({"SENT_NEW", "SENT_FLAGS"} \subseteq sv.state[ot])
        \/ sv.new_pending[ot] # 0 \/ sv.flags_pending[ot] # 0
     THEN w
     ELSE IF "CLOSING" \in sv.state[t] THEN w
     ELSE LET w1 == [w EXCEPT !.sv.state[t] = @ \cup {"CLOSING"}]
          IN IF Has(sv.ops[t], {"EXPUNGE", "EXPUNGE_SOLO"}) /\ "TRASH_BAD" \notin sv.state[t]
             THEN Dispatch(w1, t, NewCmd("close_box"))
             ELSE box_closed_p2(w1, t)

\* box_closed(): without reports of the expunged messages, the records
\* whose message was marked as deleted are taken to be gone
box_closed(w, t, reported) ==
  LET mark(srec) == IF "DEAD" \notin srec.status /\ Has(srec.status, S_DEL(t))
                    THEN [srec EXCEPT !.status = @ \cup S_GONE(t)] ELSE srec
      w1 == IF reported THEN w
            ELSE [w EXCEPT !.sv.srecs = [i \in 1..Len(w.sv.srecs) |-> mark(w.sv.srecs[i])]]
  IN box_closed_p2(w1, t)

\* The expunge callback of the driver
message_expunged(w, t, m) ==
  LET i == w.sv.msgs[t][m].srec
  IN IF i # 0
     THEN [w EXCEPT !.sv.srecs[i].status = @ \cup S_GONE(t), !.sv.srecs[i].msg[t] = 0,
                    !.sv.msgs[t][m].srec = 0]
     ELSE w

msgs_new_done(w, t) == sync_close([w EXCEPT !.sv.state[t] = @ \cup {"FOUND_NEW"}], t)

\* ------------------------------------------------------------------------
\* sync.c: trashing and expunging
\* ------------------------------------------------------------------------
\* The first loop of msgs_flags_set(): is message m of side t to be expunged
WantExpunge(w, t, m, only_solo) ==
  LET ot == Inv(t)
      tmsg == w.sv.msgs[t][m]
      i == tmsg.srec
      srec == w.sv.srecs[i]
      solo == \/ srec.uid[ot] = 0
              \/ Has(srec.status, S_GONE(ot))
              \/ ("EXPUNGE" \in w.sv.ops[ot] /\ Has(srec.status, S_DEL(ot)))
              \/ (t = w.conf.expire_side /\ Has(srec.status, {"EXPIRE", "EXPIRED"}))
  IN /\ "DEAD" \notin tmsg.status
     /\ Has(tmsg.flags, F_DELETED)
     /\ (only_solo /\ i # 0) => (solo /\ "PENDING" \notin srec.status)

\* The second loop of msgs_flags_set() without the look-up in trashed_msgs
WantTrash_forgetful(w, t, m, only_new) ==
  LET tmsg == w.sv.msgs[t][m]
      i == tmsg.srec
      srec == w.sv.srecs[i]
  IN /\ "DEAD" \notin tmsg.status
     /\ "EXPUNGE" \in tmsg.status
     /\ i # 0 => /\ ~(t = w.conf.expire_side /\ Has(srec.status, {"EXPIRE", "EXPIRED"}))
                 /\ ~Has(srec.status, S_DUMMY(t))
                 /\ "PURGED" \notin srec.status
                 /\ ~(only_new /\ ~Has(srec.status, S_DUMMY(Inv(t)) \cup {"SKIPPED"}))

\* The second loop of msgs_flags_set(): is message m of side t to be trashed
WantTrash(w, t, m, only_new) ==
  LET tmsg == w.sv.msgs[t][m]
      i == tmsg.srec
      srec == w.sv.srecs[i]
  IN /\ "DEAD" \notin tmsg.status
     /\ "EXPUNGE" \in tmsg.status
     /\ i # 0 => /\ ~(t = w.conf.expire_side /\ Has(srec.status, {"EXPIRE", "EXPIRED"}))
                 /\ ~Has(srec.status, S_DUMMY(t))
                 /\ "PURGED" \notin srec.status
                 /\ ~(only_new /\ ~Has(srec.status, S_DUMMY(Inv(t)) \cup {"SKIPPED"}))
     /\ tmsg.uid \notin w.sv.trashed_msgs[t]

\* copy_msg(): fetch the message from the side opposite to the target
copy_msg(w, t, i, m, minimal, cb) ==
  Dispatch(w, Inv(t), [NewCmd("fetch_msg") EXCEPT !.srec = i, !.msg = m,
                                                  !.minimal = minimal, !.cb = cb])

msgs_flags_set(w0, t) ==
  LET ot == Inv(t)
      expunging == Has(w0.sv.ops[t], {"EXPUNGE", "EXPUNGE_SOLO"})
      only_solo == "EXPUNGE_SOLO" \in w0.sv.ops[t]
      markmsg(w, m) == IF WantExpunge(w, t, m, only_solo)
                       THEN [w EXCEPT !.sv.msgs[t][m].status = @ \cup {"EXPUNGE"}] ELSE w
      RECURSIVE mark(_, _)
      mark(w, m) == IF m > Len(w.sv.msgs[t]) THEN w ELSE mark(markmsg(w, m), m + 1)
      local == w0.conf.trash[t]
      remote == ~local /\ w0.conf.trash[ot] /\ w0.conf.trash_remote_new[ot]
      only_new == IF local THEN w0.conf.trash_only_new[t] ELSE TRUE
      RECURSIVE trash(_, _)
      trash(w, m) ==
        IF m > Len(w.sv.msgs[t]) THEN w
        ELSE IF ~WantTrash(w, t, m, only_new) THEN trash(w, m + 1)
        ELSE LET w2 == [w EXCEPT !.sv.trash_pending[t] = @ + 1]
             IN trash(IF ~remote
                      THEN Dispatch(w2, t, [NewCmd("trash_msg") EXCEPT !.msg = m])
                      ELSE copy_msg(w2, ot, 0, m, FALSE, "msg_rtrashed"), m + 1)
      trashed(wm) == IF expunging /\ (local \/ remote) THEN trash(wm, 1) ELSE wm
      marked(w1) == IF expunging THEN mark(w1, 1) ELSE w1
  IN IF "SENT_FLAGS" \notin w0.sv.state[t] \/ w0.sv.flags_pending[t] # 0 THEN w0
     ELSE sync_close([trashed(marked(sync_close(w0, ot)))
                      EXCEPT !.sv.state[t] = @ \cup {"SENT_TRASH"}], t)

flags_set(w, t, cmd) ==
  LET i == cmd.srec
      w1 == IF Has(cmd.add, F_DELETED)
            THEN [w EXCEPT !.sv.srecs[i].status = @ \cup S_DEL(t)]
            ELSE IF Has(cmd.del, F_DELETED)
            THEN [w EXCEPT !.sv.srecs[i].status = @ \ S_DEL(t)]
            ELSE w
  IN msgs_flags_set([flags_set_p2(w1, i, t) EXCEPT !.sv.flags_pending[t] = @ - 1], t)

msg_trashed(w, t, cmd) ==
  sync_close([JLOG(w, JEnt("T", t, w.sv.msgs[t][cmd.msg].uid, 0, {}, {}))
              EXCEPT !.sv.trash_pending[t] = @ - 1], t)

\* msg_rtrashed() is called with the side the copy was stored to
msg_rtrashed(w, t0, cmd) ==
  LET t == Inv(t0)
  IN sync_close([JLOG(w, JEnt("T", t, w.sv.msgs[t][cmd.msg].uid, 0, {}, {}))
                 EXCEPT !.sv.trash_pending[t] = @ - 1], t)

\* ------------------------------------------------------------------------
\* sync.c: message propagation
\* ------------------------------------------------------------------------
msgs_copied(w0, t) ==
  LET ot == Inv(t)
      RECURSIVE send(_, _)
      send(w, m) ==
        IF m > Len(w.sv.msgs[ot]) THEN w
        ELSE LET tmsg == w.sv.msgs[ot][m]
                 i == tmsg.srec
             IN IF "DEAD" \notin tmsg.status /\ i # 0 /\ "PENDING" \in w.sv.srecs[i].status
                THEN send(copy_msg([w EXCEPT !.sv.new_pending[t] = @ + 1], t, i, m,
                                   Has(w.sv.srecs[i].status, S_DUMMY(t)), "msg_copied"),
                          m + 1)
                ELSE send(w, m + 1)
  IN Bind(IF "SENT_NEW" \in w0.sv.state[t] THEN w0
          ELSE [send(w0, w0.sv.new_msgs[t]) EXCEPT !.sv.state[t] = @ \cup {"SENT_NEW"}],
          LAMBDA w1 :
       IF w1.sv.new_pending[t] # 0 THEN w1
       ELSE Bind(sync_close(w1, ot), LAMBDA w2 :
              IF "FIND_NEW" \in w2.sv.state[t]
              THEN Dispatch(w2, t, [NewCmd("find_new_msgs") EXCEPT !.uid = w2.sv.finduid[t]])
              ELSE msgs_new_done(w2, t)))

\* msg_fetched() for a message on its way to side t; cmd.flags is
\* vars->data.flags as the driver left it
msg_fetched(w, t, cmd) ==
  LET i == cmd.srec
      srec == w.sv.srecs[i]
      upg == i # 0 /\ "UPGRADE" \in srec.status
      f1 == sanitize_flags(cmd.flags, t)
      f2 == IF i # 0 /\ Has(srec.status, S_DUMMY(t)) THEN f1 \ F_FLAGGED ELSE f1
      flags == IF upg THEN (srec.pflags \cup srec.aflags[t]) \ srec.dflags[t] ELSE f2
  IN Dispatch(IF upg
              THEN IF srec.aflags[t] # {} \/ srec.dflags[t] # {}
                   THEN JLOG(w, JEnt("$", srec.uid[F], srec.uid[N], 0,
                                     srec.aflags[t], srec.dflags[t]))
                   ELSE w
              ELSE IF i # 0 /\ f2 # {}
                   THEN JLOG([w EXCEPT !.sv.srecs[i].pflags = f2],
                             JEnt("%", srec.uid[F], srec.uid[N], 0, f2, {}))
                   ELSE w,
              t, [cmd EXCEPT !.op = "store_msg", !.flags = flags,
                             !.tuid = IF i # 0 THEN srec.tuid ELSE 0,
                             !.to_trash = (i = 0)])

msg_copied(w, t, cmd, uid) ==
  msgs_copied([(IF uid = 0 THEN [w EXCEPT !.sv.state[t] = @ \cup {"FIND_NEW"}]
                ELSE ASSIGN_UID(w, cmd.srec, t, uid))
               EXCEPT !.sv.new_pending[t] = @ - 1], t)

\* msgs is the position of the first message found
msgs_found_new(w, t, msgs) == msgs_new_done(match_tuids(w, t, msgs).w, t)

\* ------------------------------------------------------------------------
\* sync.c: box_loaded()
\* ------------------------------------------------------------------------
\* Pair the messages of side t with the sync records by UID.  Of several
\* live records with the same UID the hash table yields the first one.
MatchByUid(sv0, t) ==
  LET RECURSIVE go(_, _)
      go(sv, m) ==
        IF m > Len(sv.msgs[t]) THEN sv
        ELSE LET C == {p \in 1..Len(sv.order) :
                         /\ "DEAD" \notin sv.srecs[sv.order[p]].status
                         /\ sv.srecs[sv.order[p]].uid[t] = sv.msgs[t][m].uid}
             IN IF sv.msgs[t][m].srec # 0 \/ C = {} THEN go(sv, m + 1)
                ELSE LET i == sv.order[CHOOSE p \in C : \A x \in C : p <= x]
                     IN go([sv EXCEPT !.msgs[t][m].srec = i, !.srecs[i].msg[t] = m], m + 1)
  IN go(sv0, 1)

\* Position of the first message of side t with a UID of at least uid
FirstFrom(sv, t, uid) ==
  LET C == {m \in 1..Len(sv.msgs[t]) : sv.msgs[t][m].uid >= uid}
  IN IF C = {} THEN Len(sv.msgs[t]) + 1 ELSE CHOOSE m \in C : \A x \in C : m <= x

\* assert( !srec->tuid[0] ) in the loop over the old entries
TuidLeft(sv) ==
  \E p \in 1..Len(sv.order) :
    "DEAD" \notin sv.srecs[sv.order[p]].status /\ sv.srecs[sv.order[p]].tuid # 0

\* The part of box_loaded() that runs once both sides are loaded, from the
\* flag propagation on
BoxLoadedSend(w0) ==
  LET sent(w, t) == [w EXCEPT !.sv.state[t] = @ \cup {"SENT_FLAGS"}]
      prep(w, t) ==
        IF w.sv.any_new[t]
        THEN JLOG([w EXCEPT !.sv.finduid[t] = w.store[t].uidnext, !.sv.new_msgs[t] = 1],
                  JEnt("F", t, w.store[t].uidnext, 0, {}, {}))
        ELSE [w EXCEPT !.sv.state[t] = @ \cup {"SENT_NEW"}]
      RECURSIVE tuids(_, _)
      tuids(w, p) ==
        IF p > Len(w.sv.order) THEN w
        ELSE IF "PENDING" \in w.sv.srecs[w.sv.order[p]].status
        THEN tuids(assign_tuid(w, w.sv.order[p]), p + 1)
        ELSE tuids(w, p + 1)
      assign(w) == IF w.sv.any_new[F] \/ w.sv.any_new[N] THEN tuids(w, 1) ELSE w
  IN msgs_copied(msgs_copied(assign(prep(prep(
       msgs_flags_set(sent(msgs_flags_set(sent(SyncAllFlags(w0), F), F), N), N),
       F), N)), F), N)

\* The loop of box_loaded() taking a pair of differing messages for one
\* that is not confirmed
ReapproveUidval_lenient(sv, t) ==
  LET ot == Inv(t)
      RECURSIVE go(_, _, _)
      go(p, need, got) ==
        IF p > Len(sv.order) THEN ~(got < 20 /\ got * 5 < need * 4)
        ELSE LET srec == sv.srecs[sv.order[p]]
             IN IF "DEAD" \in srec.status THEN go(p + 1, need, got)
                ELSE IF srec.msg[t] = 0 THEN go(p + 1, need + 1, got)
                ELSE IF sv.msgs[t][srec.msg[t]].msgid = 0 THEN go(p + 1, need + 1, got)
                ELSE IF srec.msg[ot] = 0 THEN go(p + 1, need + 1, got)
                ELSE IF sv.msgs[ot][srec.msg[ot]].msgid = 0
                        \/ sv.msgs[F][srec.msg[F]].msgid # sv.msgs[N][srec.msg[N]].msgid
                THEN go(p + 1, need + 1, got)
                ELSE go(p + 1, need + 1, got + 1)
  IN go(1, 0, 0)

\* The loop of box_loaded() that checks whether the messages with known
\* UIDs of side t are still the same messages, and the test of its counts
ReapproveUidval(sv, t) ==
  LET ot == Inv(t)
      RECURSIVE go(_, _, _)
      go(p, need, got) ==
        IF p > Len(sv.order) THEN ~(got < 20 /\ got * 5 < need * 4)
        ELSE LET srec == sv.srecs[sv.order[p]]
             IN IF "DEAD" \in srec.status THEN go(p + 1, need, got)
                ELSE IF srec.msg[t] = 0 THEN go(p + 1, need + 1, got)
                ELSE IF sv.msgs[t][srec.msg[t]].msgid = 0 THEN go(p + 1, need + 1, got)
                ELSE IF srec.msg[ot] = 0 THEN go(p + 1, need + 1, got)
                ELSE IF sv.msgs[ot][srec.msg[ot]].msgid = 0
                        \/ sv.msgs[F][srec.msg[F]].msgid # sv.msgs[N][srec.msg[N]].msgid
                THEN FALSE
                ELSE go(p + 1, need + 1, got + 1)
  IN go(1, 0, 0)

\* The loop over the two sides: a side whose UIDVALIDITY changed is
\* re-approved or the run is canceled (uvchg:)
ApproveUidvals(w0) ==
  LET one(r, t) ==
        IF r.failed THEN r
        ELSE IF r.w.sv.uidval[t] = UIDVAL_BAD \/ r.w.sv.uidval[t] = r.w.sv.newuidval[t]
        THEN r
        ELSE IF ReapproveUidval(r.w.sv, t)
        THEN [w |-> [r.w EXCEPT !.sv.uidval[t] = UIDVAL_BAD], failed |-> FALSE]
        ELSE [w |-> r.w, failed |-> TRUE]
  IN one(one([w |-> w0, failed |-> FALSE], F), N)

box_loaded(w0, t, msgs) ==
  LET loaded == [w0 EXCEPT !.sv.state[t] = @ \cup {"LOADED"}, !.sv.msgs[t] = msgs]
      paired(w) == [w EXCEPT !.sv = MatchByUid(w.sv, t)]
      newval == Pair(w0.store[F].uidvalidity, w0.store[N].uidvalidity)
      valid(w) == IF w.sv.uidval[F] = UIDVAL_BAD \/ w.sv.uidval[N] = UIDVAL_BAD
                  THEN JLOG([w EXCEPT !.sv.uidval = newval],
                            JEnt("|", newval[F], newval[N], 0, {}, {}))
                  ELSE w
      start(w) == [w EXCEPT !.sv.oldmaxuid = w.sv.newmaxuid]
  IN Bind(paired(IF "FIND_OLD" \in loaded.sv.state[t]
                 THEN match_tuids(loaded, t, FirstFrom(loaded.sv, t, loaded.sv.finduid[t])).w
                 ELSE loaded), LAMBDA w1 :
       IF "LOADED" \notin w1.sv.state[Inv(t)] THEN w1
       ELSE Bind(ApproveUidvals(w1), LAMBDA a :
              IF a.failed THEN [a.w EXCEPT !.pc = "failed"]
              ELSE Bind(start(valid(a.w)), LAMBDA w2 :
                     IF TuidLeft(w2.sv) THEN [w2 EXCEPT !.pc = "aborted"]
                     ELSE Bind(Expiration(NewMessages(OldEntries(w2))), LAMBDA r :
                            IF r.failed THEN [r.w EXCEPT !.pc = "failed"]
                            ELSE BoxLoadedSend(r.w)))))

\* ------------------------------------------------------------------------
\* sync.c: box_opened2() and load_box()
\* ------------------------------------------------------------------------
get_seenuid(sv, t) ==
  LET U == {sv.srecs[sv.order[p]].uid[t] :
              p \in {q \in 1..Len(sv.order) : "DEAD" \notin sv.srecs[sv.order[q]].status}}
  IN IF U = {} THEN 0 ELSE CHOOSE u \in U : \A x \in U : x <= u

load_box(w, t, minwuid0, mexcs) ==
  LET sv == w.sv
      o == sv.opts[t]
      seenuid == get_seenuid(sv, t)
      r == IF "NEW" \in o
           THEN IF "OLD" \in o
                THEN [opts |-> o \cup {"PAIRED"}, min |-> 1, max |-> UINT_MAX]
                ELSE IF "PAIRED" \notin o \/ minwuid0 > sv.maxuid[t] + 1
                THEN [opts |-> o, min |-> sv.maxuid[t] + 1, max |-> UINT_MAX]
                ELSE [opts |-> o, min |-> minwuid0, max |-> UINT_MAX]
           ELSE IF Has(o, {"PAIRED", "OLD"})
           THEN IF "OLD" \in o
                THEN IF sv.maxuid[t] < seenuid
                     THEN [opts |-> o, min |-> 1,
                           max |-> IF "PAIRED" \in o THEN seenuid ELSE sv.maxuid[t]]
                     ELSE [opts |-> o \cup {"PAIRED"}, min |-> 1, max |-> sv.maxuid[t]]
                ELSE [opts |-> o, min |-> minwuid0, max |-> seenuid]
           ELSE [opts |-> o, min |-> UINT_MAX, max |-> 0]
  IN Dispatch([w EXCEPT !.sv.opts[t] = r.opts], t,
              [NewCmd("load_box") EXCEPT !.minuid = r.min, !.maxuid = r.max,
                                         !.finduid = sv.finduid[t],
                                         !.pairuid = IF "NEW" \in o /\ "PAIRED_IDS" \in o
                                                     THEN seenuid ELSE UINT_MAX,
                                         !.newuid = sv.maxuid[t], !.excs = mexcs])

\* The live records, over which box_opened2() takes its counts
LiveSrecs(sv) ==
  {sv.srecs[sv.order[p]] : p \in {p \in 1..Len(sv.order) :
                                   "DEAD" \notin sv.srecs[sv.order[p]].status}}

\* The side a pending record is propagated to
TargetOf(srec) == IF srec.uid[F] = 0 THEN F ELSE N

\* The options of the two sides as box_opened2() computes them from the
\* operations ops (after masking Upgrade) and the counts
OpenOpts(w, sv, ops, any_dummies, any_purges, any_upgrades, any_old, any_new, any_tuids,
         any_expiring) ==
  LET xt == w.conf.expire_side
      sized(t) == w.conf.max_size[t] # UINT_MAX
      prop(t) == Has(ops[t], {"OLD", "NEW", "UPGRADE"}) \/ any_old[t] \/ any_new[t]
                 \/ any_upgrades[t]
      \* the bits side t sets on itself and on the other side
      self(t) ==
        (IF any_purges[t] THEN {"SETFLAGS"} ELSE {})
        \cup (IF any_tuids[t] THEN {"NEW", "FIND"} ELSE {})
        \cup (IF Has(ops[t], {"GONE", "FLAGS"}) THEN {"SETFLAGS"} ELSE {})
        \cup (IF prop(t) THEN {"APPEND"} ELSE {})
        \cup (IF prop(t) /\ "UPGRADE" \in ops[t] THEN {"PAIRED", "FLAGS", "SETFLAGS"} ELSE {})
        \cup (IF Has(ops[t], {"EXPUNGE", "EXPUNGE_SOLO"}) THEN {"EXPUNGE"} ELSE {})
        \cup (IF "EXPUNGE_SOLO" \in ops[t] THEN {"OLD", "NEW", "FLAGS", "UID_EXPUNGE"}
              ELSE IF "EXPUNGE" \in ops[t] /\ w.conf.trash[t]
              THEN (IF w.conf.trash_only_new[t] THEN {} ELSE {"OLD"})
                   \cup {"NEW", "FLAGS", "UID_EXPUNGE"}
              ELSE IF "EXPUNGE" \in ops[t] /\ w.conf.trash[Inv(t)]
                      /\ w.conf.trash_remote_new[Inv(t)]
              THEN {"NEW", "FLAGS", "UID_EXPUNGE"} ELSE {})
        \cup (IF any_expiring /\ t = xt THEN {"PAIRED", "FLAGS"} ELSE {})
      other(t) ==
        (IF Has(ops[t], {"GONE", "FLAGS"}) THEN {"PAIRED"} ELSE {})
        \cup (IF "FLAGS" \in ops[t] THEN {"FLAGS"} ELSE {})
        \cup (IF prop(t) /\ ("OLD" \in ops[t] \/ any_old[t])
              THEN {"OLD"} \cup (IF sized(t) THEN {"OLD_SIZE"} ELSE {}) ELSE {})
        \cup (IF prop(t) /\ ("NEW" \in ops[t] \/ any_new[t])
              THEN {"NEW"} \cup (IF sized(t) THEN {"NEW_SIZE"} ELSE {}) ELSE {})
        \cup (IF prop(t) /\ ("UPGRADE" \in ops[t] \/ any_upgrades[t]) THEN {"PAIRED"} ELSE {})
        \cup (IF prop(t) /\ "EXPUNGE" \in (ops[F] \cup ops[N]) THEN {"FLAGS"} ELSE {})
        \cup (IF "EXPUNGE_SOLO" \in ops[t] THEN {"OLD"} ELSE {})
        \cup (IF any_expiring /\ t = xt
              THEN IF any_dummies[xt] THEN {"PAIRED", "FLAGS"}
                   ELSE IF Has(ops[xt], {"OLD", "NEW", "UPGRADE"}) THEN {"FLAGS"} ELSE {}
              ELSE {})
  IN [t \in Side |-> self(t) \cup other(Inv(t))]

\* imap_prepare_load_box(): without UIDPLUS there is no UID EXPUNGE
prepare_load_box(w, t, opts) == IF w.conf.uidplus[t] THEN opts ELSE opts \ {"UID_EXPUNGE"}

\* The exception list of the fetch of the side that is not expired
Mexcs(w, sv, minwuid) ==
  LET xt == w.conf.expire_side
      ot == Inv(xt)
      want(srec) == /\ "DEAD" \notin srec.status
                    /\ srec.uid[ot] # 0
                    /\ srec.uid[ot] < minwuid
                    /\ ~("NEW" \in sv.opts[ot] /\ srec.uid[ot] > sv.maxuid[ot])
                    /\ ~(srec.uid[xt] = 0 /\ "PENDING" \notin srec.status)
  IN {sv.srecs[i].uid[ot] : i \in {j \in 1..Len(sv.srecs) : want(sv.srecs[j])}}

\* box_opened2(), called for the second of the two sides
box_opened2(w) ==
  LET sv == w.sv
      xt == w.conf.expire_side
      ot == Inv(xt)
      cops == w.conf.ops
      counting == sv.replayed \/ "UPGRADE" \in (cops[F] \cup cops[N])
      cnt(P(_)) == counting /\ \E srec \in LiveSrecs(sv) : P(srec)
      rcnt(P(_)) == sv.replayed /\ \E srec \in LiveSrecs(sv) : P(srec)
      dummy_on(srec, t) ==
        IF Has(srec.status, S_DUMMY(F)) THEN t = F
        ELSE IF Has(srec.status, S_DUMMY(N)) THEN t = N
        ELSE "SKIPPED" \in srec.status /\ t = TargetOf(srec)
      pend(srec) == "PURGE" \notin srec.status /\ "PENDING" \in srec.status
      any_dummies == [t \in Side |-> LET P(srec) == dummy_on(srec, t) IN cnt(P)]
      any_purges == [t \in Side |->
                       LET P(srec) == "PURGE" \in srec.status
                                      /\ t = (IF srec.uid[F] # 0 THEN F ELSE N)
                       IN rcnt(P)]
      any_upgrades == [t \in Side |->
                         LET P(srec) == pend(srec) /\ t = TargetOf(srec)
                                        /\ "UPGRADE" \in srec.status
                         IN rcnt(P)]
      any_old == [t \in Side |->
                    LET P(srec) == pend(srec) /\ t = TargetOf(srec)
                                   /\ "UPGRADE" \notin srec.status
                                   /\ srec.uid[Inv(t)] <= sv.maxuid[Inv(t)]
                    IN rcnt(P)]
      any_new == [t \in Side |->
                    LET P(srec) == pend(srec) /\ t = TargetOf(srec)
                                   /\ "UPGRADE" \notin srec.status
                                   /\ srec.uid[Inv(t)] > sv.maxuid[Inv(t)]
                    IN rcnt(P)]
      any_tuids == [t \in Side |->
                      LET P(srec) == pend(srec) /\ t = TargetOf(srec) /\ srec.tuid # 0
                      IN rcnt(P)]
      expiring0 == LET P(srec) == ExpireOngoing(srec.status) IN rcnt(P)
      ops == [t \in Side |-> IF any_dummies[t] THEN cops[t] ELSE cops[t] \ {"UPGRADE"}]
      any_expiring == expiring0 \/ (Has(ops[xt], {"OLD", "NEW", "UPGRADE", "FLAGS"})
                                    /\ w.conf.max_messages # 0)
      fails == {t \in Side : sv.uidval[t] # UIDVAL_BAD
                              /\ sv.uidval[t] # w.store[t].uidvalidity}
      want0 == OpenOpts(w, sv, ops, any_dummies, any_purges, any_upgrades, any_old, any_new,
                        any_tuids, any_expiring)
      want == [t \in Side |->
                 want0[t] \cup (IF fails # {} THEN {"PAIRED", "PAIRED_IDS"} ELSE {})]
      opts == [t \in Side |-> prepare_load_box(w, t, want[t])]
      nosolo == \E t \in Side : "UID_EXPUNGE" \in (want[t] \ opts[t])
                                /\ "EXPUNGE_SOLO" \in ops[t]
      sv1 == [sv EXCEPT !.ops = ops, !.opts = opts, !.any_expiring = any_expiring,
                        !.state = [t \in Side |-> {"PRESENT", "CONFIRMED", "SELECTED"}
                                     \cup (IF any_tuids[t] THEN {"FIND_OLD"} ELSE {})],
                        !.newuidval = Pair(w.store[F].uidvalidity, w.store[N].uidvalidity)]
      split == "PAIRED" \in opts[ot] /\ "OLD" \notin opts[ot] /\ w.conf.max_messages # 0
      minwuid == IF split THEN sv.maxxfuid + 1 ELSE 1
      mexcs == IF split THEN Mexcs(w, sv1, minwuid) ELSE {}
      w1 == [w EXCEPT !.sv = sv1]
  IN IF fails = Side
     THEN [w EXCEPT !.pc = "failed",
                    !.sv.newuidval = Pair(w.store[F].uidvalidity, w.store[N].uidvalidity)]
     ELSE IF nosolo THEN [w1 EXCEPT !.pc = "failed"]
     ELSE load_box(load_box(w1, ot, minwuid, mexcs), xt, 1, {})

\* ------------------------------------------------------------------------
\* The mailboxes and the driver (driver.h, drv_imap.c)
\* ------------------------------------------------------------------------
\* A message in a mailbox: cid identifies the content, dummy marks a
\* placeholder.  Mailboxes are kept by ascending UID.
StoreMsg(uid, flags, tuid, size, cid, dummy) ==
  [uid |-> uid, flags |-> flags, tuid |-> tuid, size |-> size, cid |-> cid, dummy |-> dummy]

\* Position of the message with the UID in the mailbox of side t (0 if gone)
StorePos(w, t, uid) ==
  LET C == {k \in 1..Len(w.store[t].msgs) : w.store[t].msgs[k].uid = uid}
  IN IF C = {} THEN 0 ELSE CHOOSE k \in C : TRUE

\* The messages imap_load_box() fetches, as message_t
LoadedMsgs(w, t, cmd) ==
  LET o == w.sv.opts[t]
      max == IF cmd.maxuid = UINT_MAX THEN w.store[t].uidnext - 1 ELSE cmd.maxuid
      inrange(uid) == (cmd.minuid <= uid /\ uid <= max) \/ uid \in cmd.excs
      inexc(uid) == uid \in cmd.excs /\ ~(cmd.minuid <= uid /\ uid <= max)
      sel == SelectSeq(w.store[t].msgs, LAMBDA sm : inrange(sm.uid))
      wantsize(uid) == IF uid <= cmd.newuid THEN "OLD_SIZE" \in o ELSE "NEW_SIZE" \in o
      conv(sm) == [uid |-> sm.uid,
                   flags |-> IF "FLAGS" \in o THEN sm.flags ELSE {},
                   status |-> IF "FLAGS" \in o THEN {"FLAGS"} ELSE {},
                   tuid |-> IF "FIND" \in o /\ sm.uid >= cmd.finduid /\ ~inexc(sm.uid)
                            THEN sm.tuid ELSE 0,
                   size |-> IF wantsize(sm.uid) /\ ~inexc(sm.uid) THEN sm.size ELSE 0,
                   msgid |-> IF "PAIRED_IDS" \in o /\ (inexc(sm.uid) \/ sm.uid <= cmd.pairuid)
                             THEN sm.cid ELSE 0,
                   srec |-> 0]
  IN [k \in 1..Len(sel) |-> conv(sel[k])]

\* The effect of the command on the mailboxes alone
StoreEffect(w, t, cmd) ==
  LET st == w.store[t]
      k == StorePos(w, t, cmd.uid)
      muid == w.sv.msgs[t][cmd.msg].uid
      expunge(uids) == [w EXCEPT !.store[t].msgs =
                          SelectSeq(@, LAMBDA sm : ~(sm.uid \in uids /\ Has(sm.flags, F_DELETED)))]
  IN CASE cmd.op = "set_msg_flags" ->
            IF k = 0 THEN w
            ELSE [w EXCEPT !.store[t].msgs[k].flags = (@ \ cmd.del) \cup cmd.add]
       [] cmd.op = "store_msg" ->
            IF cmd.to_trash THEN [w EXCEPT !.store[t].trash = Append(@, cmd.cid)]
            ELSE [w EXCEPT !.store[t].msgs =
                             Append(@, StoreMsg(st.uidnext, cmd.flags, cmd.tuid,
                                                IF cmd.minimal THEN 1 ELSE cmd.size,
                                                cmd.cid, cmd.minimal)),
                           !.store[t].uidnext = @ + 1]
       [] cmd.op = "trash_msg" ->
            LET j == StorePos(w, t, muid)
            IN IF j = 0 THEN w ELSE [w EXCEPT !.store[t].trash = Append(@, st.msgs[j].cid)]
       [] cmd.op = "close_box" ->
            IF "UID_EXPUNGE" \in w.sv.opts[t]
            THEN expunge({w.sv.msgs[t][m].uid :
                            m \in {x \in 1..Len(w.sv.msgs[t]) :
                                     "DEAD" \notin w.sv.msgs[t][x].status
                                     /\ "EXPUNGE" \in w.sv.msgs[t][x].status}})
            ELSE expunge({st.msgs[x].uid : x \in 1..Len(st.msgs)})
       [] OTHER -> w

\* The messages of side t that a UID EXPUNGE for the marked messages removes
Expunged(w, t) ==
  {m \in 1..Len(w.sv.msgs[t]) :
     /\ "DEAD" \notin w.sv.msgs[t][m].status
     /\ "EXPUNGE" \in w.sv.msgs[t][m].status
     /\ StorePos(w, t, w.sv.msgs[t][m].uid) # 0
     /\ Has(w.store[t].msgs[StorePos(w, t, w.sv.msgs[t][m].uid)].flags, F_DELETED)}

\* The messages imap_find_new_msgs() appends to the list of side t
FoundMsgs(w, t, cmd) ==
  LET known == {w.sv.msgs[t][m].uid : m \in 1..Len(w.sv.msgs[t])}
      sel == SelectSeq(w.store[t].msgs, LAMBDA sm : sm.uid >= cmd.uid /\ sm.uid \notin known)
  IN [k \in 1..Len(sel) |-> [uid |-> sel[k].uid, flags |-> {}, status |-> {},
                             tuid |-> sel[k].tuid, size |-> 0, msgid |-> 0, srec |-> 0]]

\* The completion of the command cmd of side t: the response of the server
\* is processed and the callback of the sync engine runs.  w0 is the world
\* before the command took effect on the mailbox, w the one after.
Completion(w0, w, t, cmd) ==
  CASE cmd.op = "load_box" -> box_loaded(w, t, LoadedMsgs(w, t, cmd))
    [] cmd.op = "set_msg_flags" ->
         flags_set(IF cmd.msg # 0
                   THEN [w EXCEPT !.sv.msgs[t][cmd.msg].flags = (@ \ cmd.del) \cup cmd.add]
                   ELSE w, t, cmd)
    [] cmd.op = "fetch_msg" ->
         LET msg == w.sv.msgs[t][cmd.msg]
             sm == w.store[t].msgs[StorePos(w, t, msg.uid)]
             data == [cmd EXCEPT !.flags = IF "FLAGS" \in msg.status THEN msg.flags
                                           ELSE sm.flags,
                                 !.size = sm.size, !.cid = sm.cid]
         IN msg_fetched(w, Inv(t), data)
    [] cmd.op = "store_msg" ->
         IF cmd.cb = "msg_copied"
         THEN msg_copied(w, t, cmd, IF w.conf.uidplus[t] THEN w0.store[t].uidnext ELSE 0)
         ELSE msg_rtrashed(w, t, cmd)
    [] cmd.op = "find_new_msgs" ->
         msgs_found_new([w EXCEPT !.sv.msgs[t] = @ \o FoundMsgs(w, t, cmd)], t,
                        Len(w.sv.msgs[t]) + 1)
    [] cmd.op = "trash_msg" -> msg_trashed(w, t, cmd)
    [] cmd.op = "close_box" ->
         IF "UID_EXPUNGE" \in w.sv.opts[t]
         THEN LET E == Expunged(w0, t)
                  RECURSIVE rep(_, _)
                  rep(x, m) ==
                    IF m > Len(x.sv.msgs[t]) THEN x
                    ELSE IF m \in E
                    THEN rep(message_expunged([x EXCEPT !.sv.msgs[t][m].status =
                                                          @ \cup {"DEAD"}], t, m), m + 1)
                    ELSE rep(x, m + 1)
              IN box_closed(rep(w, 1), t, TRUE)
         ELSE box_closed(w, t, FALSE)

\* ------------------------------------------------------------------------
\* drv_imap.c: the command queues of an IMAP store
\* ------------------------------------------------------------------------
RESP_OK == "OK"
RESP_NO == "NO"
RESP_CANCEL == "CANCEL"

\* socket.c: lengths are counted in units of which a chunk of the write
\* buffer holds WRITE_CHUNK_SIZE; a command line is one unit or longer
WRITE_CHUNK_SIZE == 4 * MaxCmds + 1

\* imap_store_t, with the commands that were submitted (sub), the responses
\* they were completed with (done), the UID handed to the callback (out_uid),
\* the order their completion callbacks were invoked in (log), what became
\* of the callback of cancel_cmds(), and the commands that were queued and
\* in flight when cancel_cmds() was called.  Of conn_t: the number of chunks
\* queued for writing (write_buf), the length of the chunk being filled
\* (append_buf, 0: NULL), the wakeup fd_fake and POLLOUT of the notifier.
\* aborted: an assert() failed; bad: bad_callback was invoked
NewImap(max_in_progress) ==
  [pending |-> << >>, in_progress |-> << >>, wait_check |-> << >>,
   nexttag |-> 0, num_wait_check |-> 0, canceling |-> FALSE,
   max_in_progress |-> max_in_progress,
   nsub |-> 0, sub |-> [id \in 1..(3 * MaxCmds) |-> ""],
   done |-> [id \in 1..(3 * MaxCmds) |-> ""], log |-> << >>,
   out_uid |-> [id \in 1..(3 * MaxCmds) |-> 0],
   cancel |-> "no", queued |-> {}, flight |-> {},
   write_buf |-> 0, append_buf |-> 0, fake |-> FALSE, pollout |-> FALSE,
   trashnc |-> "TrashUnknown", caps |-> {}, aborted |-> FALSE, bad |-> FALSE]

\* What cmd_sendable() looks at, as it was when a command was sent
NotSent == [unsent |-> FALSE, cont |-> FALSE, data |-> FALSE, checking |-> FALSE,
            full |-> FALSE]

\* imap_cmd_t: UID FETCH, UID STORE (reported after the next CHECK only),
\* APPEND (the mailbox is created on NO [TRYCREATE]), CHECK and CREATE.
\* plus: cmd->cmd ends with "+}"; cmdl: strlen( cmd->cmd ); body: msg_data
\* of the command was filled by a FETCH response; appenduid: param.uid was
\* written from an APPENDUID response code
NewImapCmd(id, what) ==
  [id |-> id, kind |-> what, tag |-> 0, wait_check |-> what = "STORE",
   create |-> what = "APPEND", high_prio |-> FALSE, orig_cmd |-> << >>,
   cont |-> FALSE, data |-> FALSE, data_len |-> 0, to_trash |-> FALSE, uid |-> 0,
   plus |-> FALSE, cmdl |-> 1, sent |-> NotSent, body |-> FALSE, appenduid |-> FALSE]

\* imap_fetch_msg(): UID FETCH of the body of message uid
imap_fetch_msg(id, uid) == [NewImapCmd(id, "FETCH") EXCEPT !.uid = uid]

\* imap_store_msg(): APPEND with the message as a literal
imap_store_msg(id, to_trash, data_len, cmdl) ==
  [NewImapCmd(id, "APPEND") EXCEPT !.data = TRUE, !.data_len = data_len, !.plus = TRUE,
                                   !.create = to_trash, !.to_trash = to_trash,
                                   !.cmdl = cmdl]

\* imap_trash_msg(): UID COPY or UID MOVE to the trash mailbox
imap_trash_msg(id) == [NewImapCmd(id, "COPY") EXCEPT !.create = TRUE, !.to_trash = TRUE]

\* imap_open_store_authenticate2(): AUTHENTICATE, continued by do_sasl_auth()
imap_authenticate(id) == [NewImapCmd(id, "AUTHENTICATE") EXCEPT !.cont = TRUE]

imap_invoke_bad_callback(c) == [c EXCEPT !.bad = TRUE]

do_append(c) == [c EXCEPT !.write_buf = @ + 1, !.append_buf = 0]

do_flush(c) == IF c.append_buf # 0 THEN do_append(c) ELSE c

\* socket_write(): the bytes go to the chunk being filled; a chunk that is
\* full is queued.  conf_wakeup( &conn->fd_fake, 0 ) has the rest queued
RECURSIVE socket_write_fill(_, _)
socket_write_fill(c, total) ==
  IF total = 0 THEN c
  ELSE LET buf_avail == IF c.append_buf = 0 THEN Max2(total, WRITE_CHUNK_SIZE)
                        ELSE WRITE_CHUNK_SIZE - c.append_buf
           len == IF total < buf_avail THEN total ELSE buf_avail
       IN IF len = buf_avail THEN socket_write_fill(do_append(c), total - len)
          ELSE [c EXCEPT !.append_buf = @ + len]

socket_write(c, total) ==
  [socket_write_fill(IF total >= WRITE_CHUNK_SIZE THEN do_flush(c) ELSE c, total)
     EXCEPT !.fake = TRUE]

\* cmd_sendable() as seen by send_imap_cmd()
Wire(c, cmd) ==
  LET n == Len(c.in_progress)
  IN [unsent |-> c.write_buf # 0,
      cont |-> n > 0 /\ c.in_progress[n].cont,
      data |-> n > 0 /\ c.in_progress[n].data,
      checking |-> cmd.to_trash /\ c.trashnc = "TrashChecking",
      full |-> n >= c.max_in_progress]

send_imap_cmd(c, cmd) ==
  IF cmd.data /\ ~cmd.plus THEN [c EXCEPT !.aborted = TRUE]
  ELSE LET litplus == /\ cmd.data
                      /\ ~cmd.to_trash \/ c.trashnc # "TrashUnknown"
                      /\ \/ "LITERAL+" \in c.caps /\ cmd.data_len <= 100 * WRITE_CHUNK_SIZE
                         \/ "LITERAL-" \in c.caps /\ cmd.data_len <= 4 * WRITE_CHUNK_SIZE
           out == [cmd EXCEPT !.tag = c.nexttag + 1, !.plus = litplus,
                              !.data = cmd.data /\ ~litplus, !.sent = Wire(c, cmd)]
           w == socket_write(c, cmd.cmdl + (IF litplus THEN cmd.data_len ELSE 0))
       IN [w EXCEPT !.nexttag = @ + 1,
                    !.trashnc = IF cmd.to_trash /\ @ = "TrashUnknown"
                                THEN "TrashChecking" ELSE @,
                    !.in_progress = Append(@, out)]

\* cmd_sendable() that does not look at the write buffer of the socket
cmd_sendable_unbuffered(c, cmd) ==
  LET n == Len(c.in_progress)
  IN /\ n > 0 => ~(c.in_progress[n].cont \/ c.in_progress[n].data)
     /\ ~(cmd.to_trash /\ c.trashnc = "TrashChecking")
     /\ n < c.max_in_progress

cmd_sendable(c, cmd) ==
  LET n == Len(c.in_progress)
  IN /\ c.write_buf = 0
     /\ n > 0 => ~(c.in_progress[n].cont \/ c.in_progress[n].data)
     /\ ~(cmd.to_trash /\ c.trashnc = "TrashChecking")
     /\ n < c.max_in_progress

flush_imap_cmds(c) ==
  IF c.pending # << >> /\ cmd_sendable(c, Head(c.pending))
  THEN send_imap_cmd([c EXCEPT !.pending = Tail(@)], Head(c.pending))
  ELSE c

\* do_queued_write(): the socket takes n of the queued chunks whole; when
\* all are written write_callback, flush_imap_cmds(), is called
do_queued_write(c, n) ==
  IF c.write_buf = 0 THEN c
  ELSE IF n < c.write_buf THEN [c EXCEPT !.write_buf = @ - n, !.pollout = TRUE]
  ELSE flush_imap_cmds([c EXCEPT !.write_buf = 0])

socket_fake_cb(c, n) ==
  LET f == [do_flush(c) EXCEPT !.fake = FALSE]
  IN IF ~f.pollout THEN do_queued_write(f, n) ELSE f

\* socket_fd_cb() for POLLOUT
socket_fd_cb(c, n) == do_queued_write([c EXCEPT !.pollout = FALSE], n)

\* submit_imap_cmd() queueing every command in front of the waiting ones
submit_imap_cmd_in_front(c0, cmd) ==
  LET c == [c0 EXCEPT !.num_wait_check = IF cmd.wait_check THEN @ + 1 ELSE @,
                      !.sub[cmd.id] = cmd.kind]
  IN IF c.pending # << >> \/ ~cmd_sendable(c, cmd)
     THEN [c EXCEPT !.pending = <<cmd>> \o @]
     ELSE send_imap_cmd(c, cmd)

submit_imap_cmd(c0, cmd) ==
  LET c == [c0 EXCEPT !.num_wait_check = IF cmd.wait_check THEN @ + 1 ELSE @,
                      !.sub[cmd.id] = cmd.kind]
  IN IF (c.pending # << >> /\ ~cmd.high_prio) \/ ~cmd_sendable(c, cmd)
     THEN IF c.pending # << >> /\ cmd.high_prio
          THEN [c EXCEPT !.pending = <<cmd>> \o @]
          ELSE [c EXCEPT !.pending = Append(@, cmd)]
     ELSE send_imap_cmd(c, cmd)

RECURSIVE done_imap_cmd(_, _, _)
RECURSIVE finalize_checked_imap_cmds(_, _)

\* get_cmd_result_p2() that submits the original command again whatever
\* the response to CREATE was
get_cmd_result_p2_always(c, cmd, response) ==
  LET ocmd == cmd.orig_cmd[1]
      c1 == IF ocmd.to_trash THEN [c EXCEPT !.trashnc = "TrashKnown"] ELSE c
  IN submit_imap_cmd(c1, [ocmd EXCEPT !.create = FALSE, !.high_prio = TRUE])

\* imap_commit_cmds_p2() is the completion of CHECK, get_cmd_result_p2()
\* that of CREATE; the other commands call back the user of the driver
get_cmd_result_p2(c, cmd, response) ==
  LET ocmd == cmd.orig_cmd[1]
      c1 == IF ocmd.to_trash THEN [c EXCEPT !.trashnc = "TrashKnown"] ELSE c
  IN IF response # RESP_OK THEN done_imap_cmd(c, ocmd, response)
     ELSE submit_imap_cmd(c1, [ocmd EXCEPT !.create = FALSE, !.high_prio = TRUE])

done_imap_cmd(c0, cmd, response) ==
  LET c1 == IF cmd.wait_check THEN [c0 EXCEPT !.num_wait_check = @ - 1] ELSE c0
      c == [c1 EXCEPT !.done[cmd.id] = response, !.log = Append(@, cmd.id),
                      !.out_uid[cmd.id] = cmd.uid]
  IN CASE cmd.kind = "CHECK" -> finalize_checked_imap_cmds(c, response)
       [] cmd.kind = "CREATE" -> get_cmd_result_p2(c, cmd, response)
       [] OTHER -> c

finalize_checked_imap_cmds(c, resp) ==
  IF c.wait_check = << >> THEN c
  ELSE finalize_checked_imap_cmds(
         done_imap_cmd([c EXCEPT !.wait_check = Tail(@)], Head(c.wait_check), resp), resp)

RECURSIVE cancel_pending_imap_cmds(_)
cancel_pending_imap_cmds(c) ==
  IF c.pending = << >> THEN c
  ELSE cancel_pending_imap_cmds(
         done_imap_cmd([c EXCEPT !.pending = Tail(@)], Head(c.pending), RESP_CANCEL))

Ids(cmds) == {cmds[k].id : k \in 1..Len(cmds)}

imap_cancel_cmds(c0) ==
  LET c == cancel_pending_imap_cmds(finalize_checked_imap_cmds(c0, RESP_CANCEL))
      g == [c EXCEPT !.queued = Ids(c0.pending), !.flight = Ids(c0.in_progress)]
  IN IF g.in_progress # << >> THEN [g EXCEPT !.canceling = TRUE, !.cancel = "asked"]
     ELSE [g EXCEPT !.cancel = "called"]

imap_commit_cmds(c) ==
  IF c.num_wait_check > 0
  THEN submit_imap_cmd([c EXCEPT !.nsub = @ + 1], NewImapCmd(c.nsub + 1, "CHECK"))
  ELSE c

\* parse_response_code() that takes the command in flight last for the
\* command of an untagged response
parse_response_code_in_flight(c, cmdp, uid) ==
  LET n == Len(c.in_progress)
  IN IF uid = 0 THEN [c |-> c, cmdp |-> cmdp, resp |-> RESP_OK]
     ELSE IF cmdp = << >>
     THEN IF n = 0 \/ c.in_progress[n].uid # 0
          THEN [c |-> c, cmdp |-> cmdp, resp |-> RESP_CANCEL]
          ELSE [c |-> [c EXCEPT !.in_progress[n].uid = uid,
                                !.in_progress[n].appenduid = TRUE],
                cmdp |-> cmdp, resp |-> RESP_OK]
     ELSE IF cmdp[1].uid # 0 THEN [c |-> c, cmdp |-> cmdp, resp |-> RESP_CANCEL]
     ELSE [c |-> c, cmdp |-> <<[cmdp[1] EXCEPT !.uid = uid, !.appenduid = TRUE]>>,
           resp |-> RESP_OK]

\* parse_response_code() for no response code (uid = 0) or [APPENDUID v uid];
\* cmdp is empty for an untagged response (cmd is NULL)
parse_response_code(c, cmdp, uid) ==
  IF uid = 0 THEN [c |-> c, cmdp |-> cmdp, resp |-> RESP_OK]
  ELSE IF cmdp = << >> \/ cmdp[1].uid # 0
  THEN [c |-> c, cmdp |-> cmdp, resp |-> RESP_CANCEL]
  ELSE [c |-> c, cmdp |-> <<[cmdp[1] EXCEPT !.uid = uid, !.appenduid = TRUE]>>,
        resp |-> RESP_OK]

\* imap_socket_read() for an untagged OK response
imap_socket_read_ok(c, uid) == parse_response_code(c, << >>, uid).c

\* fetch_rsp_done() for a FETCH response with the body of message uid
fetch_rsp_done(c, uid) ==
  LET hits == {k \in 1..Len(c.in_progress) : c.in_progress[k].uid = uid}
  IN IF hits = {} THEN imap_invoke_bad_callback(c)
     ELSE [c EXCEPT !.in_progress[CHOOSE k \in hits : \A j \in hits : k <= j].body = TRUE]

\* imap_socket_read() for a continuation request
imap_socket_read_cont(c) ==
  LET n == Len(c.in_progress)
      cmdp == c.in_progress[n]
  IN IF cmdp.data
     THEN LET c1 == IF cmdp.to_trash THEN [c EXCEPT !.trashnc = "TrashKnown"] ELSE c
          IN flush_imap_cmds(socket_write([c1 EXCEPT !.in_progress[n].data = FALSE],
                                          cmdp.data_len))
     ELSE IF cmdp.cont THEN flush_imap_cmds(socket_write(c, 1))
     ELSE imap_invoke_bad_callback(c)

\* imap_socket_read() without the wait_check queue: a command that succeeded
\* is reported at once
imap_socket_read_at_once(c0, k, answer) ==
  LET cmdp == c0.in_progress[k]
      c == [c0 EXCEPT !.in_progress = SubSeq(@, 1, k - 1) \o SubSeq(@, k + 1, Len(@))]
  IN IF answer = "TRYCREATE" /\ cmdp.create
     THEN submit_imap_cmd([c EXCEPT !.nsub = @ + 1],
                          [NewImapCmd(c.nsub + 1, "CREATE") EXCEPT
                             !.orig_cmd = <<cmdp>>, !.high_prio = TRUE])
     ELSE LET resp == IF answer = "OK" THEN RESP_OK ELSE RESP_NO
              d == done_imap_cmd(c, cmdp, resp)
          IN IF d.canceling /\ d.in_progress = << >>
             THEN [d EXCEPT !.canceling = FALSE, !.cancel = "called"]
             ELSE flush_imap_cmds(d)

RespRank(resp) == IF resp = RESP_OK THEN 0 ELSE IF resp = RESP_NO THEN 1 ELSE 2

\* imap_socket_read() for the tagged response to the k-th command in flight:
\* OK, NO, or NO [TRYCREATE], with the response code [APPENDUID v uid] if
\* uid is not 0
imap_socket_read_tagged(c0, k, answer, uid) ==
  LET cmd0 == c0.in_progress[k]
      c == [c0 EXCEPT !.in_progress = SubSeq(@, 1, k - 1) \o SubSeq(@, k + 1, Len(@))]
  IN IF answer = "TRYCREATE" /\ cmd0.create
     THEN submit_imap_cmd([c EXCEPT !.nsub = @ + 1],
                          [NewImapCmd(c.nsub + 1, "CREATE") EXCEPT
                             !.orig_cmd = <<cmd0>>, !.high_prio = TRUE])
     ELSE LET c1 == IF answer = "OK" /\ cmd0.to_trash
                    THEN [c EXCEPT !.trashnc = "TrashKnown"] ELSE c
              resp1 == IF answer = "OK" THEN RESP_OK ELSE RESP_NO
              p == parse_response_code(c1, <<cmd0>>, uid)
              cmdp == p.cmdp[1]
              resp == IF RespRank(p.resp) > RespRank(resp1) THEN p.resp ELSE resp1
              c2 == IF resp = RESP_CANCEL THEN imap_invoke_bad_callback(p.c) ELSE p.c
              d == IF resp = RESP_OK /\ cmdp.wait_check
                   THEN [c2 EXCEPT !.wait_check = Append(@, cmdp)]
                   ELSE done_imap_cmd(c2, cmdp, resp)
          IN IF d.canceling /\ d.in_progress = << >>
             THEN [d EXCEPT !.canceling = FALSE, !.cancel = "called"]
             ELSE flush_imap_cmds(d)

\* imap_socket_read() for a tagged response without a response code
imap_socket_read(c0, k, answer) == imap_socket_read_tagged(c0, k, answer, 0)

\* ------------------------------------------------------------------------
\* imap_msgs.c: the messages of the selected mailbox an IMAP store knows
\* ------------------------------------------------------------------------
F_FORWARDED == {"P"}

\* imap_messages_t: the list (prev and next are the neighbours in it), the
\* cursor (0: NULL), and whether an assert() of imap_expunge_msg() failed
NewImapMessages == [list |-> << >>, cursor_ptr |-> 0, cursor_seq |-> 0, failed |-> FALSE]

\* imap_new_msg() and the assignments of parse_fetch_rsp()
imap_new_msg(msgs, seq, uid, flags) ==
  [msgs EXCEPT !.list = Append(@, [seq |-> seq, uid |-> uid, flags |-> flags, status |-> {}])]

\* The sum of the seq fields of the first n messages
RECURSIVE SumSeq(_, _)
SumSeq(list, n) == IF n = 0 THEN 0 ELSE SumSeq(list, n - 1) + list[n].seq

\* imap_ensure_absolute() giving a dead message no number
imap_ensure_absolute_live(msgs) ==
  IF msgs.cursor_ptr = 0 THEN msgs
  ELSE [msgs EXCEPT !.list = [i \in 1..Len(@) |->
                                [@[i] EXCEPT !.seq = IF "DEAD" \in msgs.list[i].status THEN 0
                                                     ELSE SumSeq(msgs.list, i)]],
                    !.cursor_ptr = 0, !.cursor_seq = 0]

imap_ensure_absolute(msgs) ==
  IF msgs.cursor_ptr = 0 THEN msgs
  ELSE [msgs EXCEPT !.list = [i \in 1..Len(@) |-> [@[i] EXCEPT !.seq = SumSeq(msgs.list, i)]],
                    !.cursor_ptr = 0, !.cursor_seq = 0]

\* qsort() with imap_compare_msgs(): the UIDs of a mailbox are distinct
SortByUid(list) ==
  LET uids == SetToSortedSeq({list[i].uid : i \in 1..Len(list)})
  IN [j \in 1..Len(list) |-> list[CHOOSE i \in 1..Len(list) : list[i].uid = uids[j]]]

imap_ensure_relative(msgs) ==
  IF msgs.cursor_ptr # 0 \/ msgs.list = << >> THEN msgs
  ELSE LET t == SortByUid(msgs.list)
           rel == [j \in 1..Len(t) |->
                     IF j = 1 THEN t[1] ELSE [t[j] EXCEPT !.seq = t[j].seq - t[j - 1].seq]]
       IN [msgs EXCEPT !.list = rel, !.cursor_ptr = 1, !.cursor_seq = rel[1].seq]

\* The loop of imap_expunge_msg(): where it ends, on which message and number
RECURSIVE ExpungeWalk(_, _, _, _)
ExpungeWalk(list, fseq, msg, seq) ==
  IF seq = fseq /\ "DEAD" \notin list[msg].status
  THEN [how |-> "expunging", msg |-> msg, seq |-> seq]
  ELSE IF seq < fseq
  THEN IF msg = Len(list) THEN [how |-> "done", msg |-> msg, seq |-> seq]
       ELSE ExpungeWalk(list, fseq, msg + 1, seq + list[msg + 1].seq)
  ELSE IF msg = 1 \/ seq - list[msg].seq < fseq
  THEN [how |-> "lowering", msg |-> msg, seq |-> seq]
  ELSE ExpungeWalk(list, fseq, msg - 1, seq - list[msg].seq)

\* imap_expunge_msg() lowering nothing unless it found the message
imap_expunge_msg_found(msgs0, fseq) ==
  LET msgs == imap_ensure_relative(msgs0)
  IN IF msgs.cursor_ptr = 0 THEN [msgs |-> msgs, ret |-> 0]
     ELSE LET at == ExpungeWalk(msgs.list, fseq, msgs.cursor_ptr, msgs.cursor_seq)
          IN IF at.how # "expunging"
             THEN [msgs |-> [msgs EXCEPT !.cursor_ptr = at.msg, !.cursor_seq = at.seq],
                   ret |-> 0]
             ELSE [msgs |-> [msgs EXCEPT !.list[at.msg].status = {"DEAD"},
                                         !.list[at.msg].seq = @ - 1,
                                         !.cursor_ptr = at.msg, !.cursor_seq = at.seq - 1],
                   ret |-> msgs.list[at.msg].uid]

\* imap_expunge_msg(): the list, and the UID of the message returned (0: NULL)
imap_expunge_msg(msgs0, fseq) ==
  LET msgs == imap_ensure_relative(msgs0)
  IN IF msgs.cursor_ptr = 0 THEN [msgs |-> msgs, ret |-> 0]
     ELSE LET at == ExpungeWalk(msgs.list, fseq, msgs.cursor_ptr, msgs.cursor_seq)
              dead == IF at.how = "expunging"
                      THEN [msgs EXCEPT !.list[at.msg].status = {"DEAD"}] ELSE msgs
          IN IF at.how = "done"
             THEN [msgs |-> [dead EXCEPT !.cursor_ptr = at.msg, !.cursor_seq = at.seq],
                   ret |-> 0]
             ELSE [msgs |-> [dead EXCEPT !.failed = @ \/ dead.list[at.msg].seq = 0,
                                         !.list[at.msg].seq = IF @ = 0 THEN 0 ELSE @ - 1,
                                         !.cursor_ptr = at.msg, !.cursor_seq = at.seq - 1],
                   ret |-> IF at.how = "expunging" THEN msgs.list[at.msg].uid ELSE 0]

\* imap_close_box() with OPEN_UID_EXPUNGE: the UID ranges of its UID EXPUNGE
\* commands. The range that starts at a marked message is extended over the
\* next one if that is dead without a gap, or alive, adjacent and has the
\* message flag of the bit of M_EXPUNGE (nmsg->flags & M_EXPUNGE)
imap_close_box(list, bit) ==
  LET RECURSIVE last(_)
      last(msg) ==
        IF msg = Len(list) THEN msg
        ELSE IF "DEAD" \in list[msg + 1].status
        THEN IF list[msg + 1].seq # 0 THEN msg ELSE last(msg + 1)
        ELSE IF list[msg + 1].seq > 1 \/ ~Has(list[msg + 1].flags, bit) THEN msg
        ELSE last(msg + 1)
      RECURSIVE ranges(_)
      ranges(msg) ==
        IF msg > Len(list) THEN << >>
        ELSE IF "DEAD" \in list[msg].status \/ "EXPUNGE" \notin list[msg].status
        THEN ranges(msg + 1)
        ELSE <<[first |-> list[msg].uid, last |-> list[last(msg)].uid]>> \o ranges(last(msg) + 1)
  IN ranges(1)

\* ------------------------------------------------------------------------
\* sync.c: BufferLimit and the propagation of new messages to a store
\* ------------------------------------------------------------------------
\* imap_get_memory_usage(): the payload of the commands in the buffers
RECURSIVE get_memory_usage(_)
get_memory_usage(storing) ==
  IF storing = << >> THEN 0
  ELSE (IF Head(storing).buffered THEN Head(storing).size ELSE 0)
       + get_memory_usage(Tail(storing))

\* sync_close() of the other side, in a run that propagates nothing to it
\* and trashes nothing on t
buf_sync_close(b) ==
  IF "SENT_TRASH" \notin b.state \/ b.trash_pending # 0
     \/ "SENT_NEW" \notin b.state \/ b.new_pending # 0
  THEN b
  ELSE [b EXCEPT !.state = @ \cup {"CLOSING"}]

\* msg_fetched(): store_msg() on t, whose buffers get the payload
buf_msg_fetched(b, cmd) == [b EXCEPT !.storing = Append(@, [cmd EXCEPT !.buffered = TRUE])]

\* copy_msg(): fetch_msg() on the other side
buf_copy_msg(b, what, size) ==
  LET cmd == [what |-> what, size |-> size, buffered |-> FALSE]
  IN IF b.sync THEN buf_msg_fetched(b, cmd) ELSE [b EXCEPT !.fetching = Append(@, cmd)]

\* msg_rtrashed() with COPY_OK
buf_msg_rtrashed(b) == buf_sync_close([b EXCEPT !.trash_pending = @ - 1])

\* msgs_copied(): the loop stops at the first message when the store holds
\* BufferLimit or more
RECURSIVE buf_msgs_copied(_)
buf_msgs_copied(b) ==
  IF "SENDING_NEW" \in b.state THEN b
  ELSE IF "SENT_NEW" \notin b.state /\ b.next <= Len(b.new)
  THEN IF get_memory_usage(b.storing) >= b.limit THEN b
       ELSE buf_msgs_copied(buf_copy_msg([b EXCEPT !.new_pending = @ + 1, !.next = @ + 1],
                                         "new", b.new[b.next]))
  ELSE IF b.new_pending # 0 THEN [b EXCEPT !.state = @ \cup {"SENT_NEW"}]
  ELSE buf_sync_close([b EXCEPT !.state = @ \cup {"SENT_NEW", "FOUND_NEW"}])

\* msg_copied() with COPY_OK
buf_msg_copied(b) == buf_msgs_copied([b EXCEPT !.new_pending = @ - 1])

\* The last loop of msgs_flags_set() of the other side, which trashes
\* remotely
RECURSIVE buf_msgs_flags_set(_, _)
buf_msgs_flags_set(b, k) ==
  IF k > Len(b.trash) THEN buf_sync_close([b EXCEPT !.state = @ \cup {"SENT_TRASH"}])
  ELSE buf_msgs_flags_set(buf_copy_msg([b EXCEPT !.trash_pending = @ + 1], "trash", b.trash[k]),
                          k + 1)

\* ------------------------------------------------------------------------
\* main_sync.c: the mailboxes of a channel, and a store that goes bad
\* ------------------------------------------------------------------------
SYNC_FAIL == {"FAIL"}
SYNC_BAD(t) == IF t = F THEN {"BAD_F"} ELSE {"BAD_N"}

\* finalize_sync(): the stores that are still open are freed
finalize_sync(c) == [c EXCEPT !.state = Pair("CLOSED", "CLOSED"), !.where = "finalized"]

\* The part of done_sync() before it goes on with the next mailbox
done_sync_p1(c, sts) ==
  [c EXCEPT !.active = FALSE, !.ret = {}, !.sstate = Pair({}, {}),
            !.boxes_done = @ + 1,
            !.cret = IF sts # {} THEN 1 ELSE @,
            !.state = [t \in Side |-> IF Has(sts, SYNC_BAD(t)) THEN "CLOSED" ELSE @[t]],
            !.box_done = TRUE]

sync_ref(c) == [c EXCEPT !.ref_count = @ + 1]

\* sync_deref() without the test of the count: every call calls back
sync_deref_always(c0) ==
  LET c == [c0 EXCEPT !.ref_count = @ - 1]
  IN done_sync_p1(c, c.ret)

\* sync_deref(): the last reference frees svars and calls back
sync_deref(c0) ==
  LET c == [c0 EXCEPT !.ref_count = @ - 1]
  IN IF c.ref_count = 0 THEN done_sync_p1(c, c.ret) ELSE c

\* cancel_done(): sync_bail() is called once both sides are canceled; the
\* result tells whether it was
cancel_done(c0, t) ==
  LET c == [c0 EXCEPT !.sstate[t] = @ \cup {"CANCELED"}]
  IN IF "CANCELED" \in c.sstate[Inv(t)] THEN [c |-> sync_deref(c), done |-> TRUE]
     ELSE [c |-> c, done |-> FALSE]

\* cancel_sync() calls cancel_cmds() of the store
cancel_cmds(c, t) ==
  [c EXCEPT !.sstate[t] = @ \cup {"SENT_CANCEL"}, !.cancels[t] = @ + 1,
            !.late = IF t \in c.bad THEN @ + 1 ELSE @,
            !.again = IF c.cancels[t] > 0 THEN @ + 1 ELSE @]

\* cancel_sync() that looks at ST_SENT_CANCEL before it looks at SYNC_BAD
cancel_sync_anew(c1, now) ==
  LET c0 == [c1 EXCEPT !.syncs = @ + 1]
      state1 == c0.sstate[N]
      side(c, t) ==
        IF "SENT_CANCEL" \notin c.sstate[t]
        THEN Bind(cancel_cmds(c, t),
                  LAMBDA d : IF now[t] THEN cancel_done(d, t) ELSE [c |-> d, done |-> FALSE])
        ELSE IF Has(c.ret, SYNC_BAD(t)) THEN cancel_done(c, t)
        ELSE [c |-> c, done |-> FALSE]
  IN IF side(c0, F).done \/ "CANCELED" \in state1 THEN side(c0, F)
     ELSE side(side(c0, F).c, N)

\* cancel_sync(); now[t] tells whether cancel_cmds() of the store calls back
\* at once
cancel_sync(c1, now) ==
  LET c0 == [c1 EXCEPT !.syncs = @ + 1]
      state1 == c0.sstate[N]
      side(c, t) ==
        IF Has(c.ret, SYNC_BAD(t)) THEN cancel_done(c, t)
        ELSE IF "SENT_CANCEL" \notin c.sstate[t]
        THEN Bind(cancel_cmds(c, t),
                  LAMBDA d : IF now[t] THEN cancel_done(d, t) ELSE [c |-> d, done |-> FALSE])
        ELSE [c |-> c, done |-> FALSE]
  IN IF side(c0, F).done \/ "CANCELED" \in state1 THEN side(c0, F)
     ELSE side(side(c0, F).c, N)

\* store_bad() of sync.c
store_bad(c, t, now) ==
  cancel_sync([c EXCEPT !.canceled = @ \cup {t}, !.bad = @ \cup {t},
                        !.ret = @ \cup SYNC_BAD(t)], now)

\* check_ret() with DRV_BOX_BAD
check_ret(c, now) == cancel_sync([c EXCEPT !.ret = @ \cup SYNC_FAIL], now)

\* sync_boxes() up to open_box(): set_callbacks(), get_caps() and
\* select_box() are called on both stores; how tells how it goes on
sync_boxes(c0, how) ==
  LET c == [c0 EXCEPT !.begun = @ + 1, !.used = IF c0.canceled # {} THEN @ + 1 ELSE @,
                      !.active = TRUE, !.ret = {}, !.sstate = Pair({}, {}),
                      !.ref_count = 1, !.syncs = 0, !.cancels = Pair(0, 0),
                      !.bad = {}]
  IN CASE how = "bad_F" -> store_bad(c, F, Pair(TRUE, TRUE)).c
       [] how = "bad_N" -> store_bad(c, N, Pair(TRUE, TRUE)).c
       [] how = "fail" -> sync_deref([c EXCEPT !.ret = SYNC_FAIL])
       [] OTHER -> c

\* do_sync_boxes(); hows tells how the calls of sync_boxes() go on
RECURSIVE do_sync_boxes(_, _)
do_sync_boxes(c0, hows) ==
  LET c == [c0 EXCEPT !.box_cben = FALSE]
  IN IF (c.boxlist /\ c.left = 0) \/ (~c.boxlist /\ c.box_done) THEN finalize_sync(c)
     ELSE Bind(sync_boxes([c EXCEPT !.left = IF c.boxlist THEN @ - 1 ELSE @,
                                    !.box_done = FALSE], Head(hows)),
               LAMBDA d : IF ~d.box_done THEN [d EXCEPT !.box_cben = TRUE]
                          ELSE do_sync_boxes(d, Tail(hows)))

\* done_sync()
done_sync(c, hows) == IF c.box_done /\ c.box_cben THEN do_sync_boxes(c, hows) ELSE c

\* ------------------------------------------------------------------------
\* util.c: notifiers and wakeups
\* ------------------------------------------------------------------------
NoCall == [n |-> 0, m |-> 0, removed |-> {}, zeros |-> {}, armed |-> {}]
Drop(q, i) == [j \in 1..(Len(q) - 1) |-> IF j < i THEN q[j] ELSE q[j + 1]]
Place(q, i, x) == [j \in 1..(Len(q) + 1) |-> IF j < i THEN q[j] ELSE IF j = i THEN x ELSE q[j - 1]]
At(q, x) == IF \E i \in 1..Len(q) : q[i] = x THEN CHOOSE i \in 1..Len(q) : q[i] = x ELSE 0

\* init_notifier(): a new pollfds entry, the notifier becomes the list head
init_notifier(e, n) ==
  [e EXCEPT !.pollfds = Append(@, [fd |-> n, revents |-> 0]),
            !.index[n] = Len(e.pollfds) + 1,
            !.notifiers = <<n>> \o @]

\* wipe_notifier() whose changed flag is never raised
wipe_notifier_unflagged(e, n) ==
  [e EXCEPT !.notifiers = Drop(@, At(@, n)),
            !.pollfds = Drop(@, e.index[n]),
            !.index = [k \in DOMAIN @ |->
                         IF At(e.notifiers, k) # 0 /\ k # n /\ @[k] > e.index[n]
                         THEN @[k] - 1 ELSE @[k]],
            !.removed = @ \cup {n}]

\* wipe_notifier(): unlinks the notifier, raises changed, closes the gap in
\* pollfds and lowers the index of the notifiers behind it
wipe_notifier(e, n) ==
  [e EXCEPT !.notifiers = Drop(@, At(@, n)),
            !.changed = TRUE,
            !.pollfds = Drop(@, e.index[n]),
            !.index = [k \in DOMAIN @ |->
                         IF At(e.notifiers, k) # 0 /\ k # n /\ @[k] > e.index[n]
                         THEN @[k] - 1 ELSE @[k]],
            !.removed = @ \cup {n}]

WithoutTimer(timers, w) == SelectSeq(timers, LAMBDA t : t.id # w)

\* conf_wakeup() that queues a null timer behind the others
conf_wakeup_at_tail(timers, w, to, now) ==
  IF to < 0 THEN WithoutTimer(timers, w)
  ELSE Append(WithoutTimer(timers, w), [id |-> w, timeout |-> IF to = 0 THEN 0 ELSE to + now])

\* conf_wakeup(): a negative timeout unlinks the wakeup, a null timer goes
\* to the head, any other behind the last wakeup with an earlier deadline
conf_wakeup(timers, w, to, now) ==
  LET others == WithoutTimer(timers, w)
      timeout == IF to = 0 THEN 0 ELSE to + now
      before == {j \in 1..Len(others) : others[j].timeout < timeout}
      head == IF before = {} THEN 0 ELSE CHOOSE j \in before : \A k \in before : k <= j
  IN IF to < 0 THEN others
     ELSE IF to = 0 THEN <<[id |-> w, timeout |-> 0]>> \o others
     ELSE Place(others, head + 1, [id |-> w, timeout |-> timeout])

\* What a callback does: nothing of interest to the loop, conf_wakeup() or
\* wipe_notifier()
Callbacks(e) ==
  {[op |-> "none"]}
    \cup [op : {"conf_wakeup"}, w : 1..MaxWakeups, to : {-1, 0, 1}]
    \cup [op : {"wipe_notifier"}, n : {n \in 1..MaxNotifiers : At(e.notifiers, n) # 0}]

Callback(e, c) ==
  CASE c.op = "conf_wakeup" ->
         [e EXCEPT !.timers = conf_wakeup(@, c.w, c.to, e.now),
                   !.armed = IF c.to = 0 THEN @ \cup {c.w} ELSE @ \ {c.w}]
    [] c.op = "wipe_notifier" -> wipe_notifier(e, c.n)
    [] OTHER -> e

ZeroQueued(e) == {e.timers[i].id : i \in {i \in 1..Len(e.timers) : e.timers[i].timeout = 0}}

\* The head of timers is due
Due(e) ==
  /\ e.timers # << >>
  /\ (e.timers[1].timeout = 0 \/ e.timers[1].timeout - e.now <= 0)

\* event_wait(): the head of timers is due; it is unlinked and called
event_wait_timer(e, c) ==
  Callback([e EXCEPT !.timers = Tail(@), !.armed = @ \ {e.timers[1].id}, !.call = NoCall,
                     !.fired = [w |-> e.timers[1].id, timeout |-> e.timers[1].timeout]], c)

\* event_wait(): poll() returns revents at time now and the loop starts at
\* the head of notifiers; without a ready descriptor event_wait() returns
event_wait_poll(e, revents, now) ==
  [e EXCEPT !.pollfds = [i \in DOMAIN @ |-> [@[i] EXCEPT !.revents = revents[e.pollfds[i].fd]]],
            !.now = now,
            !.cur = IF \E n \in DOMAIN revents : At(e.notifiers, n) # 0 /\ revents[n] # 0
                    THEN e.notifiers[1] ELSE 0,
            !.polled = [n \in DOMAIN revents |-> IF At(e.notifiers, n) # 0 THEN revents[n] ELSE 0],
            !.removed = {}, !.armed = {}, !.called = {}, !.call = NoCall,
            !.fired = [w |-> 0, timeout |-> 0]]

\* sn->next as read after the callback
NextNotifier(e, n) ==
  LET i == At(e.notifiers, n)
  IN IF i = 0 \/ i = Len(e.notifiers) THEN 0 ELSE e.notifiers[i + 1]

\* event_wait(): one turn of the loop over the notifiers
event_wait_dispatch(e0, c) ==
  LET n == e0.cur
      m == e0.pollfds[e0.index[n]].revents
      e1 == [e0 EXCEPT !.call = [n |-> n, m |-> m, removed |-> e0.removed, zeros |-> ZeroQueued(e0),
                                    armed |-> e0.armed],
                       !.called = @ \cup {n},
                       !.fired = [w |-> 0, timeout |-> 0]]
      e == Callback(e1, c)
  IN IF m = 0 THEN [e0 EXCEPT !.cur = NextNotifier(e0, n), !.call = NoCall,
                              !.fired = [w |-> 0, timeout |-> 0]]
     ELSE IF e.changed THEN [e EXCEPT !.changed = FALSE, !.cur = 0]
     ELSE [e EXCEPT !.cur = NextNotifier(e, n)]

\* ------------------------------------------------------------------------
\* The state of the model
\* ------------------------------------------------------------------------
\* ------------------------------------------------------------------------
\* imap_utf7.c: mailbox names in UTF-8 and in modified UTF-7
\* ------------------------------------------------------------------------
\* A string is the sequence of its bytes, without the terminating NUL
NoConversion == [phase |-> "none"]

\* ~0U, returned for what is not a character
NOCHR == -1

\* struct bit_fifo: the bits that are in it, the oldest first.  value holds
\* 64 bits and the functions never let bits exceed 37, so none is lost
RECURSIVE Num(_)
Num(bits) == IF bits = << >> THEN 0 ELSE 2 * Num(SubSeq(bits, 1, Len(bits) - 1)) + bits[Len(bits)]

Bits(n, size) == [i \in 1..size |-> (n \div (2 ^ (size - i))) % 2]

add_bits(fifo, bits, size) == fifo \o Bits(bits, size)

eat_bits(fifo, size) ==
  [bits |-> Num(SubSeq(fifo, 1, size)), fifo |-> SubSeq(fifo, size + 1, Len(fifo))]

peek_bits(fifo, size) == Num(SubSeq(fifo, 1, size))

\* eat_char(): behind the last byte is the NUL
eat_char(buf, p) == IF p <= Len(buf) THEN buf[p] ELSE 0

\* (chr & 0xc0) == 0x80
IsTail(chr) == chr \div 64 = 2

\* read_as_utf8(): the character at p and the position behind it
read_as_utf8(buf, p) ==
  LET chr == eat_char(buf, p)
      chr2 == eat_char(buf, p + 1)
      chr3 == eat_char(buf, p + 2)
      chr4 == eat_char(buf, p + 3)
  IN IF chr < 128 THEN [chr |-> chr, p |-> p + 1]
     ELSE IF chr \div 8 = 30
     THEN IF ~IsTail(chr2) THEN [chr |-> NOCHR, p |-> p + 2]
          ELSE IF ~IsTail(chr3) THEN [chr |-> NOCHR, p |-> p + 3]
          ELSE IF ~IsTail(chr4) THEN [chr |-> NOCHR, p |-> p + 4]
          ELSE [chr |-> (chr % 8) * 262144 + (chr2 % 64) * 4096 + (chr3 % 64) * 64
                          + (chr4 % 64),
                p |-> p + 4]
     ELSE IF chr \div 16 = 14
     THEN IF ~IsTail(chr2) THEN [chr |-> NOCHR, p |-> p + 2]
          ELSE IF ~IsTail(chr3) THEN [chr |-> NOCHR, p |-> p + 3]
          ELSE [chr |-> (chr % 16) * 4096 + (chr2 % 64) * 64 + (chr3 % 64), p |-> p + 3]
     ELSE IF chr \div 32 = 6
     THEN IF ~IsTail(chr2) THEN [chr |-> NOCHR, p |-> p + 2]
          ELSE [chr |-> (chr % 32) * 64 + (chr2 % 64), p |-> p + 2]
     ELSE [chr |-> NOCHR, p |-> p + 1]

needs_encoding(chr) == chr # 0 /\ (chr <= 31 \/ chr >= 127)

\* utf16_encode(): the two halves of the 32 bits it returns
utf16_encode(chr) ==
  <<((chr - 65536) \div 1024) + 55296, ((chr - 65536) % 1024) + 56320>>

b64_encode(chr) ==
  IF chr < 26 THEN chr + 65 ELSE IF chr < 52 THEN chr + 71
  ELSE IF chr < 62 THEN chr - 4 ELSE IF chr = 62 THEN 43 ELSE 44

\* while (fifo.bits >= 6) add_char( &outp, b64_encode( eat_bits( &fifo, 6 ) ) )
RECURSIVE DrainFifo(_, _)
DrainFifo(fifo, out) ==
  IF Len(fifo) < 6 THEN [fifo |-> fifo, out |-> out]
  ELSE DrainFifo(eat_bits(fifo, 6).fifo, Append(out, b64_encode(eat_bits(fifo, 6).bits)))

\* The loop of imap_utf8_to_utf7(); abort: the assert() on the size of the
\* result failed
RECURSIVE utf8_to_utf7_loop(_, _, _, _, _)
utf8_to_utf7_loop(buf, p, out, fifo, encoding) ==
  LET r == read_as_utf8(buf, p)
      chr == r.chr
  IN IF chr = NOCHR THEN [sts |-> "error", out |-> << >>]
     ELSE IF needs_encoding(chr)
     THEN LET o1 == IF ~encoding THEN Append(out, 38) ELSE out
              f1 == IF chr <= 65535 THEN add_bits(fifo, chr, 16)
                    ELSE add_bits(add_bits(fifo, utf16_encode(chr)[1], 16),
                                  utf16_encode(chr)[2], 16)
              d == DrainFifo(f1, o1)
          IN utf8_to_utf7_loop(buf, r.p, d.out, d.fifo, TRUE)
     ELSE LET o1 == IF encoding /\ fifo # << >>
                    THEN Append(out, b64_encode(Num(fifo) * (2 ^ (6 - Len(fifo)))))
                    ELSE out
              o2 == IF encoding THEN Append(o1, 45) ELSE o1
              o3 == IF chr = 0 THEN o2
                    ELSE IF chr = 38 THEN o2 \o <<38, 45>> ELSE Append(o2, chr)
          IN IF chr # 0 THEN utf8_to_utf7_loop(buf, r.p, o3, << >>, FALSE)
             ELSE IF Len(o3) + 1 > (Len(buf) * 7) \div 2 + 3
             THEN [sts |-> "abort", out |-> << >>]
             ELSE [sts |-> "ok", out |-> o3]

imap_utf8_to_utf7(buf) == utf8_to_utf7_loop(buf, 1, << >>, << >>, FALSE)

\* write_as_utf8(); ok is FALSE if assert( chr <= 0xfffff ) fails
write_as_utf8(chr) ==
  IF chr <= 127 THEN [ok |-> TRUE, out |-> <<chr>>]
  ELSE IF chr <= 2047 THEN [ok |-> TRUE, out |-> <<(chr \div 64) + 192, (chr % 64) + 128>>]
  ELSE IF chr <= 65535
  THEN [ok |-> TRUE,
        out |-> <<(chr \div 4096) + 224, ((chr \div 64) % 64) + 128, (chr % 64) + 128>>]
  ELSE IF chr > 1048575 THEN [ok |-> FALSE, out |-> << >>]
  ELSE [ok |-> TRUE,
        out |-> <<(chr \div 262144) + 240, ((chr \div 4096) % 64) + 128,
                  ((chr \div 64) % 64) + 128, (chr % 64) + 128>>]

\* (bits & 0xfc00) == 0xd800
need_another_16bit(bits) == bits \div 1024 = 54

\* utf16_decode() of the two halves
utf16_decode(hi, lo) == 65536 + (hi - 55296) * 1024 + (lo - 56320)

b64_decode(chr) ==
  IF chr = 43 THEN 62 ELSE IF chr = 44 THEN 63
  ELSE IF 48 <= chr /\ chr <= 57 THEN chr + 4
  ELSE IF 65 <= chr /\ chr <= 90 THEN chr - 65
  ELSE IF 97 <= chr /\ chr <= 122 THEN chr - 71
  ELSE NOCHR

\* imap_utf7_to_utf8(): utf7_to_utf8_loop is the outer loop at position p,
\* utf7_to_utf8_shift the inner one with chr read and p the next position
RECURSIVE utf7_to_utf8_loop(_, _, _)
RECURSIVE utf7_to_utf8_shift(_, _, _, _, _)
utf7_to_utf8_loop(buf, p, out) ==
  IF p > Len(buf) THEN [sts |-> "ok", out |-> out]
  ELSE IF buf[p] # 38
  THEN IF buf[p] >= 128 THEN [sts |-> "error", out |-> << >>]
       ELSE utf7_to_utf8_loop(buf, p + 1, Append(out, buf[p]))
  ELSE IF p + 1 > Len(buf) THEN [sts |-> "error", out |-> << >>]
  ELSE IF buf[p + 1] = 45 THEN utf7_to_utf8_loop(buf, p + 2, Append(out, 38))
  ELSE utf7_to_utf8_shift(buf, p + 2, buf[p + 1], out, << >>)

utf7_to_utf8_shift(buf, p, chr, out, fifo) ==
  IF chr >= 128 \/ b64_decode(chr) = NOCHR THEN [sts |-> "error", out |-> << >>]
  ELSE LET f1 == add_bits(fifo, b64_decode(chr), 6)
           pair == Len(f1) >= 16 /\ need_another_16bit(peek_bits(f1, 16)) /\ Len(f1) >= 32
           single == Len(f1) >= 16 /\ ~need_another_16bit(peek_bits(f1, 16))
           hi == peek_bits(f1, 16)
           lo == eat_bits(eat_bits(f1, 16).fifo, 16).bits
           w == IF pair THEN write_as_utf8(utf16_decode(hi, lo))
                ELSE write_as_utf8(eat_bits(f1, 16).bits)
           f2 == IF pair THEN eat_bits(eat_bits(f1, 16).fifo, 16).fifo
                 ELSE IF single THEN eat_bits(f1, 16).fifo ELSE f1
           o2 == IF pair \/ single THEN out \o w.out ELSE out
       IN IF pair /\ lo \div 1024 # 55 THEN [sts |-> "error", out |-> << >>]
          ELSE IF (pair \/ single) /\ ~w.ok THEN [sts |-> "abort", out |-> << >>]
          ELSE IF p > Len(buf) THEN [sts |-> "error", out |-> << >>]
          ELSE IF buf[p] # 45 THEN utf7_to_utf8_shift(buf, p + 1, buf[p], o2, f2)
          ELSE IF Len(f2) > 6 THEN [sts |-> "error", out |-> << >>]
          ELSE utf7_to_utf8_loop(buf, p + 1, o2)

imap_utf7_to_utf8(buf) == utf7_to_utf8_loop(buf, 1, << >>)

\* ------------------------------------------------------------------------
\* sync_msg_cvt.c: the conversion of a fetched message before it is stored.
\* A message is a sequence of characters; positions count from 0 as in C
\* ------------------------------------------------------------------------
TUIDL == 12
INT_MAX == 2147483647
LF == 10
CR == 13

\* "X-TUID: " and "SUBJECT:"
XTuidHdr == <<88, 45, 84, 85, 73, 68, 58, 32>>
SubjectHdr == <<83, 85, 66, 74, 69, 67, 84, 58>>

dummy_pfx ==
  <<91, 112, 108, 97, 99, 101, 104, 111, 108, 100, 101, 114, 93, 32>>

dummy_subj ==
  <<83, 117, 98, 106, 101, 99, 116, 58, 32, 91, 112, 108, 97, 99, 101, 104, 111,
    108, 100, 101, 114, 93, 32, 40, 78, 111, 32, 83, 117, 98, 106, 101, 99, 116,
    41>>

\* sprintf( sz, "%dKiB", size >> 10 ) of a message of 2048 bytes
sz == <<50, 75, 105, 66>>

dummy_msg_1 ==
  <<72, 97, 118, 105, 110, 103, 32, 97, 32, 115, 105, 122, 101, 32, 111, 102, 32>>

dummy_msg_2 ==
  <<44, 32, 116, 104, 105, 115, 32, 109, 101, 115, 115, 97, 103, 101, 32, 105, 115,
    32, 111, 118, 101, 114, 32, 116, 104, 101, 32, 77, 97, 120, 83, 105, 122, 101,
    32, 108, 105, 109, 105, 116, 46>>

dummy_msg_3 ==
  <<70, 108, 97, 103, 32, 105, 116, 32, 97, 110, 100, 32, 115, 121, 110, 99, 32,
    97, 103, 97, 105, 110, 32, 40, 83, 121, 110, 99, 32, 109, 111, 100, 101, 32,
    85, 112, 103, 114, 97, 100, 101, 41, 32, 116, 111, 32, 102, 101, 116, 99, 104,
    32, 105, 116, 115, 32, 114, 101, 97, 108, 32, 99, 111, 110, 116, 101, 110, 116,
    115, 46>>

dummy_flag ==
  <<84, 104, 101, 32, 111, 114, 105, 103, 105, 110, 97, 108, 32, 109, 101, 115,
    115, 97, 103, 101, 32, 105, 115, 32, 102, 108, 97, 103, 103, 101, 100, 32, 97,
    115, 32, 105, 109, 112, 111, 114, 116, 97, 110, 116, 46>>

CharAt(in_buf, i) == in_buf[i + 1]

toupper(c) == IF 97 <= c /\ c <= 122 THEN c - 32 ELSE c

\* starts_with_upper( in_buf + from, in_len - from, cmp, 8 )
starts_with_upper(in_buf, from, in_len, cmp) ==
  /\ in_len - from >= Len(cmp)
  /\ \A i \in 1..Len(cmp) : toupper(in_buf[from + i]) = cmp[i]

\* copy_msg_bytes(), adding CR
RECURSIVE AddCR(_, _, _, _, _)
AddCR(in_buf, i, in_len, pc, out) ==
  IF i >= in_len THEN out
  ELSE LET c == CharAt(in_buf, i)
       IN AddCR(in_buf, i + 1, in_len, c,
                IF c = LF /\ pc # CR THEN out \o <<CR, c>> ELSE Append(out, c))

\* copy_msg_bytes(), removing CR
RECURSIVE RemoveCR(_, _, _, _, _)
RemoveCR(in_buf, i, in_len, pc, out) ==
  IF i >= in_len THEN out
  ELSE LET c == CharAt(in_buf, i)
       IN RemoveCR(in_buf, i + 1, in_len, c,
                   IF c = LF /\ pc = CR THEN Append(SubSeq(out, 1, Len(out) - 1), c)
                   ELSE Append(out, c))

\* memchr( curLine, '\n', leftLen ): the position, or in_len if there is none
RECURSIVE NextLF(_, _, _)
NextLF(in_buf, i, in_len) ==
  IF i >= in_len THEN in_len
  ELSE IF CharAt(in_buf, i) = LF THEN i ELSE NextLF(in_buf, i + 1, in_len)

\* The inner loop of the cutting: the line of curLineLen characters at i,
\* in pieces of max_line_len with (CR)LF between them
RECURSIVE CutLine(_, _, _, _, _, _, _)
CutLine(in_buf, i, curLineLen, line_idx, out_cr, max_line_len, out) ==
  LET left == curLineLen - line_idx
      cutLen == IF left > max_line_len THEN max_line_len ELSE left
      o1 == out \o SubSeq(in_buf, i + line_idx + 1, i + line_idx + cutLen)
  IN IF line_idx + cutLen = curLineLen THEN o1
     ELSE CutLine(in_buf, i, curLineLen, line_idx + cutLen, out_cr, max_line_len,
                  o1 \o (IF out_cr THEN <<CR, LF>> ELSE <<LF>>))

\* copy_msg_bytes(), the lines cut at max_line_len
RECURSIVE CutLines(_, _, _, _, _, _)
CutLines(in_buf, i, in_len, out_cr, max_line_len, out) ==
  LET nl == NextLF(in_buf, i, in_len)
      nextLine == nl < in_len
      curLineLen == IF nextLine THEN nl - i + 1 ELSE in_len - i
      o1 == CutLine(in_buf, i, curLineLen, 0, out_cr, max_line_len, out)
  IN IF nextLine THEN CutLines(in_buf, i + curLineLen, in_len, out_cr, max_line_len, o1)
     ELSE o1

\* copy_msg_bytes(): what is written behind out and whether the assert()
\* held; wild: in_len lies before idx, the copy reads and writes out of bounds
copy_msg_bytes(out, in_buf, i, in_len, in_cr, out_cr, max_line_len) ==
  IF out_cr # in_cr
  THEN IF max_line_len # 0 THEN [out |-> out, sts |-> "abort"]
       ELSE IF out_cr THEN [out |-> AddCR(in_buf, i, in_len, 0, out), sts |-> "ok"]
       ELSE [out |-> RemoveCR(in_buf, i, in_len, 0, out), sts |-> "ok"]
  ELSE IF i > in_len THEN [out |-> out, sts |-> "wild"]
  ELSE IF max_line_len > 0
  THEN [out |-> CutLines(in_buf, i, in_len, out_cr, max_line_len, out), sts |-> "ok"]
  ELSE [out |-> out \o SubSeq(in_buf, i + 1, in_len), sts |-> "ok"]

\* copy_msg_convert(), the first loop: extra_bytes for the lines to cut, or
\* -1 for a line that is too long and must not be cut
RECURSIVE TooLong(_, _, _, _, _, _)
TooLong(in_buf, i, in_len, out_cr, gc, extra_bytes) ==
  LET nl == NextLF(in_buf, i, in_len)
      nextLine == nl < in_len
      curLineLen == IF nextLine THEN nl - i + 1 ELSE in_len - i
      extra_lines == (curLineLen - 1) \div gc.max_line_len
      e1 == IF curLineLen > gc.max_line_len
            THEN extra_bytes + (IF out_cr THEN 2 ELSE 1) * extra_lines
            ELSE extra_bytes
  IN IF curLineLen > gc.max_line_len /\ ~gc.cut_lines THEN -1
     ELSE IF nextLine THEN TooLong(in_buf, i + curLineLen, in_len, out_cr, gc, e1)
     ELSE e1

\* The line at idx: the position behind it, whether it ends in LF and in
\* CRLF, and the last character before the end
RECURSIVE ReadLine(_, _, _, _)
ReadLine(in_buf, i, in_len, pc) ==
  IF i >= in_len THEN [idx |-> i, got_line |-> FALSE, line_cr |-> 0, pc |-> pc]
  ELSE IF CharAt(in_buf, i) = LF
  THEN [idx |-> i + 1, got_line |-> TRUE, line_cr |-> IF pc = CR THEN 1 ELSE 0, pc |-> pc]
  ELSE ReadLine(in_buf, i + 1, in_len, CharAt(in_buf, i))

\* The locals of copy_msg_convert()
NewCvt(in_len) ==
  [in_len |-> in_len, idx |-> 0, sbreak |-> 0, ebreak |-> 0, break2 |-> UINT_MAX,
   lines |-> 0, hdr_crs |-> 0, bdy_crs |-> 0, extra |-> 0,
   add_subj |-> FALSE, fix_tuid |-> FALSE, fix_subj |-> FALSE, fix_hdr |-> FALSE,
   end_hdr |-> FALSE]

\* The end of the header loop, at the empty line or at the end of the
\* message: r is the line read, idx2 the position with a trailing CR put back
HeaderEnd(minimal, v, r, start, idx2) ==
  LET fix == ~r.got_line /\ idx2 # start
      start2 == IF fix THEN idx2 ELSE start
      first == v.ebreak = 0
      fix_hdr == fix /\ ~first
      plain == [v EXCEPT !.idx = idx2,
                         !.sbreak = IF first THEN start2 ELSE @,
                         !.ebreak = IF first THEN start2 ELSE @,
                         !.fix_tuid = IF first THEN fix ELSE @,
                         !.fix_hdr = FALSE, !.end_hdr = FALSE]
  IN IF ~minimal THEN plain
     ELSE IF v.break2 = UINT_MAX
     THEN [plain EXCEPT !.in_len = idx2, !.break2 = start2, !.add_subj = TRUE,
                        !.fix_subj = fix_hdr, !.end_hdr = ~r.got_line]
     ELSE [plain EXCEPT !.in_len = idx2, !.fix_hdr = fix_hdr, !.end_hdr = ~r.got_line]

\* copy_msg_convert(), the loop over the header
RECURSIVE ScanHeader(_, _, _)
ScanLine(in_buf, minimal, v, r) ==
  LET start == v.idx
      subj == /\ v.break2 = UINT_MAX /\ minimal
              /\ starts_with_upper(in_buf, start, v.in_len, SubjectHdr)
      b2 == IF ~subj THEN v.break2
            ELSE IF start + 8 < v.in_len /\ CharAt(in_buf, start + 8) = 32 THEN start + 9
            ELSE start + 8
  IN IF v.ebreak = 0 /\ starts_with_upper(in_buf, start, v.in_len, XTuidHdr)
     THEN IF ~minimal
          THEN [v EXCEPT !.idx = r.idx, !.extra = start - r.idx, !.sbreak = start,
                         !.ebreak = r.idx]
          ELSE ScanHeader(in_buf, minimal,
                          [v EXCEPT !.idx = r.idx, !.extra = start - r.idx,
                                    !.sbreak = start, !.ebreak = r.idx])
     ELSE IF r.got_line /\ r.idx - r.line_cr - 1 # start
     THEN ScanHeader(in_buf, minimal,
                     [v EXCEPT !.idx = r.idx, !.break2 = b2, !.hdr_crs = @ + r.line_cr,
                               !.lines = @ + 1])
     ELSE HeaderEnd(minimal,
                    [v EXCEPT !.break2 = b2, !.hdr_crs = @ + r.line_cr,
                              !.lines = IF r.got_line THEN @ + 1 ELSE @],
                    r, start,
                    IF ~r.got_line /\ r.pc = CR THEN r.idx - 1 ELSE r.idx)

ScanHeader(in_buf, minimal, v) ==
  Bind(ReadLine(in_buf, v.idx, v.in_len, 0), LAMBDA r : ScanLine(in_buf, minimal, v, r))

\* The loop over the body: <<lines, CRLFs>> from i on
RECURSIVE ScanBody(_, _, _, _, _)
ScanBody(in_buf, i, in_len, pc, n) ==
  IF i >= in_len THEN n
  ELSE ScanBody(in_buf, i + 1, in_len, CharAt(in_buf, i),
                IF CharAt(in_buf, i) # LF THEN n
                ELSE <<n[1] + 1, n[2] + (IF pc = CR THEN 1 ELSE 0)>>)

\* ADD_NL()
ADD_NL(out, app_cr) == IF app_cr THEN out \o <<CR, LF>> ELSE Append(out, LF)

\* sprintf( dummy_msg_buf, ... )
DummyMsg(eol, flagged) ==
  dummy_msg_1 \o sz \o dummy_msg_2 \o eol \o dummy_msg_3 \o eol
    \o (IF flagged THEN eol \o dummy_flag \o eol ELSE << >>)

\* extra, after the header loop, the body loop and the placeholder
Extra(in_cr, out_cr, vars, v, body, nl, dummy_msg_len) ==
  (IF ~vars.srec THEN 0
   ELSE v.extra + (IF v.fix_tuid \/ v.fix_subj \/ v.fix_hdr THEN nl ELSE 0)
          + (IF v.end_hdr THEN nl ELSE 0) + 8 + TUIDL + nl)
    + (IF out_cr = in_cr THEN 0
       ELSE (IF out_cr THEN v.lines + body[1] ELSE 0) - (v.hdr_crs + body[2]))
    + (IF ~vars.minimal THEN 0
       ELSE dummy_msg_len + (IF v.add_subj THEN Len(dummy_subj) + nl ELSE Len(dummy_pfx)))

\* A step of the assembly: nothing more is done once a copy went wrong
Then(r, Op(_)) == IF r.sts = "ok" THEN Op(r.out) ELSE r

Ok(out) == [out |-> out, sts |-> "ok"]

\* The header of the result, up to where the body is copied from
Header(in_cr, out_cr, vars, v, app_cr) ==
  Bind(IF v.break2 < v.sbreak
       THEN Then(copy_msg_bytes(<< >>, vars.data, 0, v.break2, in_cr, out_cr, 0),
                 LAMBDA o : Ok(o \o dummy_pfx))
       ELSE Ok(<< >>), LAMBDA h1 :
  Bind(Then(h1, LAMBDA o :
         copy_msg_bytes(o, vars.data, IF v.break2 < v.sbreak THEN v.break2 ELSE 0,
                        v.sbreak, in_cr, out_cr, 0)), LAMBDA h2 :
  Bind(Then(h2, LAMBDA o :
         Ok(ADD_NL((IF v.fix_tuid THEN ADD_NL(o, app_cr) ELSE o)
                     \o XTuidHdr \o vars.tuid, app_cr))), LAMBDA h3 :
    IF v.break2 = UINT_MAX \/ v.break2 < v.sbreak THEN h3
    ELSE Bind(Then(h3, LAMBDA o :
                copy_msg_bytes(o, vars.data, v.ebreak, v.break2, in_cr, out_cr, 0)),
              LAMBDA h4 :
                Then(h4, LAMBDA o :
                  Ok(IF ~v.add_subj THEN o \o dummy_pfx
                     ELSE ADD_NL((IF v.fix_subj THEN ADD_NL(o, app_cr) ELSE o)
                                   \o dummy_subj, app_cr)))))))

\* The result is written: the header, the body from where the header ended,
\* and the text of the placeholder
Assemble(in_cr, out_cr, vars, gc, v, app_cr, dummy_msg_buf, extra_bytes) ==
  Bind(IF vars.srec THEN Header(in_cr, out_cr, vars, v, app_cr) ELSE Ok(<< >>),
       LAMBDA hdr :
  Bind(Then(hdr, LAMBDA o :
         copy_msg_bytes(o, vars.data,
                        IF ~vars.srec THEN 0
                        ELSE IF v.break2 # UINT_MAX /\ v.break2 >= v.sbreak THEN v.break2
                        ELSE v.ebreak,
                        v.in_len, in_cr, out_cr,
                        IF extra_bytes > 0 THEN gc.max_line_len ELSE 0)),
       LAMBDA bdy :
         Then(bdy, LAMBDA o :
           Ok(IF ~vars.minimal THEN o
              ELSE (IF ~v.end_hdr THEN o
                    ELSE ADD_NL((IF v.fix_hdr THEN ADD_NL(o, app_cr) ELSE o), app_cr))
                     \o dummy_msg_buf))))

\* What copy_msg_convert() returns once the lines are measured
Converted(in_cr, out_cr, vars, gc, v, body, app_cr, dummy_msg_buf, extra_bytes) ==
  Bind(v.in_len + extra_bytes
         + Extra(in_cr, out_cr, vars, v, body, IF app_cr THEN 2 ELSE 1, Len(dummy_msg_buf)),
       LAMBDA len :
    IF len > INT_MAX
    THEN [sts |-> "error", err |-> "is too big after conversion", data |-> << >>,
          len |-> 0, flags |-> IF vars.minimal THEN vars.flags \ F_FLAGGED ELSE vars.flags]
    ELSE Bind(Assemble(in_cr, out_cr, vars, gc, v, app_cr, dummy_msg_buf, extra_bytes),
              LAMBDA all :
                [sts |-> all.sts, err |-> "", data |-> all.out, len |-> len,
                 flags |-> IF vars.minimal THEN vars.flags \ F_FLAGGED ELSE vars.flags]))

\* copy_msg_convert( in_cr, out_cr, vars ) under global_conf gc. The result:
\* sts "ok" with the message, its length and flags; "error" with the text
\* returned; "abort" for a failed assert(); "wild" for a copy out of bounds
copy_msg_convert(in_cr, out_cr, vars, gc) ==
  Bind(IF vars.srec /\ gc.max_line_len # 0
       THEN TooLong(vars.data, 0, Len(vars.data), out_cr, gc, 0) ELSE 0, LAMBDA eb :
    IF eb < 0
    THEN [sts |-> "error", err |-> "contains too long line(s)", data |-> << >>,
          len |-> 0, flags |-> vars.flags]
    ELSE Bind(IF vars.srec THEN ScanHeader(vars.data, vars.minimal, NewCvt(Len(vars.data)))
              ELSE NewCvt(Len(vars.data)), LAMBDA v :
         Bind(vars.srec /\ out_cr /\ (~in_cr \/ v.hdr_crs # 0 \/ v.lines = 0),
              LAMBDA app_cr :
                Converted(in_cr, out_cr, vars, gc, v,
                          ScanBody(vars.data, v.idx, v.in_len, 0, <<0, 0>>), app_cr,
                          IF ~vars.minimal THEN << >>
                          ELSE DummyMsg(IF app_cr THEN <<CR, LF>> ELSE <<LF>>,
                                        F_FLAGGED \subseteq vars.flags),
                          eb))))

VARIABLES
  conf,       \* the channel configuration (channel_conf_t, store_conf_t, DFlags)
  statefile,  \* the committed state file (svars->dname)
  journal,    \* the journal (svars->jname)
  newfile,    \* the new state file (svars->nname)
  store,      \* the two mailboxes with their trash folders
  sv,         \* sync_vars_t of the running process
  q,          \* the commands the drivers have not completed yet, per side
  rng,        \* the last token drawn for a TUID
  pc,         \* where the process is: idle, run, written, renamed, done, failed, aborted
  JCount,     \* the number of journal entries the process has written
  hs,         \* JCount and svars->jfp when the current handler was entered
  disk0,      \* the journal and the new state file as the process found them
  runs,       \* the number of runs started
  crashes,    \* the number of interruptions
  envs,       \* the number of changes made to the mailboxes by other clients
  last,       \* what happened last: none, done, failed, committed, crash, env
  kind,       \* the current run: fresh, second (after a completed run, nothing
              \* changed since) or resumed (after an interruption)
  ref,        \* what the run that was started last on a consistent state and
              \* was not a resumption yields if nothing interrupts it
  imap,       \* imap_store_t: the command queues of one IMAP store
  box,        \* the selected mailbox of an IMAP store: the messages on the
              \* server, imap_store_t.msgs, and what happened last
  lk,         \* the lock file of a mailbox pair (svars->lname) and the
              \* processes that synchronize the pair
  buf,        \* the propagation of new messages to an IMAP store and the
              \* payload its buffers hold
  ch,         \* main_vars_t of a channel and the sync_vars_t of the mailbox
              \* pair being synchronized
  ev,         \* the event loop: notifiers, pollfds, wakeups and the position
              \* of event_wait()
  cv          \* a conversion: the input, and what the function returned

syncvars == <<conf, statefile, journal, newfile, store, sv, q, rng, pc, JCount, hs, disk0,
              runs, crashes, envs, last, kind, ref>>

\* What the synchronization leaves alone
drvvars == <<imap, box, lk, buf, ch, ev, cv>>

vars == <<syncvars, drvvars>>

\* No mailbox is selected
NoBox ==
  [srv |-> << >>, uidnext |-> 1, msgs |-> NewImapMessages, bit |-> {}, phase |-> "none",
   ranges |-> << >>, last |-> [s |-> 0, nums |-> {}, ret |-> 0]]

\* No lock file; file is the inode the name svars->lname refers to (0: the
\* name does not exist), lock[i] the process that holds the write lock on
\* inode i (0: nobody), lfd[p] the inode svars->lfd of process p is open on
\* (0: lfd is -1), at[p] where process p is
NoLock ==
  [file |-> 0, inodes |-> 0, lock |-> [i \in 1..MaxOpens |-> 0],
   lfd |-> [p \in 1..MaxProcs |-> 0], at |-> [p \in 1..MaxProcs |-> "idle"]]

\* Nothing is propagated. With t the IMAP store that receives: limit is
\* BufferLimit, sync tells that the driver of the other side calls back
\* from within fetch_msg(), new the sizes of the messages to propagate to t,
\* trash those of the messages of the other side to trash on t, next
\* svars->new_msgs[t], fetching the fetch_msg() commands the other side has
\* not completed, storing the store_msg() commands t has not completed and
\* whether its buffers hold their payload, state what is set of
\* svars->state[t]
NoBuffers ==
  [limit |-> 1, sync |-> FALSE, new |-> << >>, trash |-> << >>, next |-> 1,
   fetching |-> << >>, storing |-> << >>, state |-> {}, new_pending |-> 0,
   trash_pending |-> 0, started |-> FALSE]

\* main_vars_t with both stores open and no mailbox pair in work: left are
\* the mailboxes after boxptr, state is "OPEN" or "CLOSED" per store, ret
\* and sstate are svars->ret and what is set of svars->state[t], canceled
\* the stores that cancel_store() was called for, begun the mailbox pairs
\* that sync_boxes() was called for, used the calls that handed it a
\* canceled store, ref_count is svars->ref_count, boxes_done the calls of
\* done_sync(); since sync_boxes() was called, syncs are the calls of
\* cancel_sync(), cancels those of cancel_cmds() per store and bad the stores
\* that store_bad() was called for; late are the calls of cancel_cmds() for
\* a store that store_bad() had been called for, again those for a store
\* that cancel_cmds() had been called for
NoChannel ==
  [boxlist |-> FALSE, left |-> 0, state |-> Pair("OPEN", "OPEN"), box_cben |-> FALSE,
   box_done |-> FALSE, active |-> FALSE, ret |-> {}, sstate |-> Pair({}, {}),
   canceled |-> {}, begun |-> 0, used |-> 0, cret |-> 0, where |-> "connected",
   ref_count |-> 0, boxes_done |-> 0, syncs |-> 0, cancels |-> Pair(0, 0), bad |-> {},
   late |-> 0, again |-> 0]

\* The event loop before any notifier is registered: notifiers is the list
\* from its head, index and pollfds[].revents are as in util.c, timers is the
\* list of wakeups from its head, cur is sn of the dispatch loop (0 outside
\* of it); polled, removed, armed, called, call and fired record what poll()
\* returned, what the callbacks of this dispatch did and the last callback
NoEvents ==
  [notifiers |-> << >>, index |-> [n \in 1..MaxNotifiers |-> 0], pollfds |-> << >>,
   changed |-> FALSE, timers |-> << >>, now |-> 0, cur |-> 0,
   polled |-> [n \in 1..MaxNotifiers |-> 0], removed |-> {}, armed |-> {},
   called |-> {}, call |-> NoCall, fired |-> [w |-> 0, timeout |-> 0]]

\* The last response was no EXPUNGE
NoExpunge(b) == [b EXCEPT !.last = NoBox.last]

\* The world the operators of the program work on
World ==
  [conf |-> conf, statefile |-> statefile, journal |-> journal, newfile |-> newfile,
   store |-> store, sv |-> sv, q |-> q, rng |-> rng, pc |-> pc, JCount |-> JCount]

\* The next state is the world w
Becomes(w) ==
  /\ statefile' = w.statefile
  /\ journal' = w.journal
  /\ newfile' = w.newfile
  /\ store' = w.store
  /\ sv' = w.sv
  /\ q' = w.q
  /\ rng' = w.rng
  /\ pc' = w.pc
  /\ JCount' = w.JCount

NoNewFile == [exists |-> FALSE, data |-> NoStateFile]
NoCmds == Pair(<< >>, << >>)

\* ------------------------------------------------------------------------
\* Configurations and mailboxes the model starts from
\* ------------------------------------------------------------------------
Conf(ops, max_messages, expire_unread, max_size, trash, uidplus) ==
  [ops |-> ops, max_messages |-> max_messages, expire_side |-> N,
   expire_unread |-> expire_unread, max_size |-> max_size,
   trash |-> trash, trash_only_new |-> Pair(FALSE, FALSE),
   trash_remote_new |-> Pair(FALSE, FALSE), uidplus |-> uidplus, forcejournal |-> FALSE]

\* "Sync All" and "Sync All" with "Expunge Both"
FullOps == {"NEW", "OLD", "FLAGS", "GONE"}
ExpOps == FullOps \cup {"EXPUNGE"}

Box(msgs, uidnext) == [msgs |-> msgs, uidnext |-> uidnext, uidvalidity |-> 1, trash |-> << >>]

\* A message as another client delivered it
Mail(uid, flags, size) == StoreMsg(uid, flags, 0, size, uid, FALSE)

Plain == Conf(Pair(FullOps, FullOps), 0, 0, Pair(UINT_MAX, UINT_MAX), Pair(FALSE, FALSE),
              Pair(TRUE, TRUE))

Scenarios ==
  { \* one new message on the far side
    [conf |-> Plain,
     store |-> Pair(Box(<<Mail(1, {}, 1)>>, 2), Box(<< >>, 1))],
    \* the near side server has no UIDPLUS, every entry is journaled
    [conf |-> [Plain EXCEPT !.uidplus = Pair(TRUE, FALSE), !.forcejournal = TRUE],
     store |-> Pair(Box(<<Mail(1, {"S"}, 1)>>, 2), Box(<< >>, 1))],
    \* expunging both sides, one of two new messages is deleted
    [conf |-> [Plain EXCEPT !.ops = Pair(ExpOps, ExpOps)],
     store |-> Pair(Box(<<Mail(1, {"T"}, 1), Mail(2, {}, 1)>>, 3), Box(<< >>, 1))],
    \* at most one message is kept on the near side
    [conf |-> [Plain EXCEPT !.max_messages = 1, !.ops = Pair(ExpOps, ExpOps)],
     store |-> Pair(Box(<< >>, 1), Box(<<Mail(1, {"S"}, 1), Mail(2, {"S"}, 1)>>, 3))],
    \* big messages get placeholders on the near side
    [conf |-> [Plain EXCEPT !.max_size = Pair(UINT_MAX, 1)],
     store |-> Pair(Box(<<Mail(1, {}, 2)>>, 2), Box(<< >>, 1))],
    \* deleted messages of the far side are moved to its trash
    [conf |-> [Plain EXCEPT !.ops = Pair(ExpOps, ExpOps), !.trash = Pair(TRUE, FALSE)],
     store |-> Pair(Box(<<Mail(1, {"T"}, 1)>>, 2), Box(<< >>, 1))] }

InitSync(s) ==
  /\ conf = s.conf
  /\ store = s.store
  /\ statefile = NoStateFile
  /\ journal = NoJournal
  /\ newfile = NoNewFile
  /\ sv = NewSvars
  /\ q = NoCmds
  /\ rng = 0
  /\ pc = "idle"
  /\ JCount = 0
  /\ hs = [JCount |-> 0, jfp |-> FALSE]
  /\ disk0 = [journal |-> NoJournal, newfile |-> NoNewFile]
  /\ runs = 0
  /\ crashes = 0
  /\ envs = 0
  /\ last = "none"
  /\ kind = "fresh"
  /\ ref = [ok |-> TRUE, file |-> NoStateFile]

Init ==
  /\ \E s \in Scenarios : InitSync(s)
  /\ imap = NewImap(1)
  /\ box = NoBox
  /\ lk = NoLock
  /\ buf = NoBuffers
  /\ ch = NoChannel
  /\ ev = NoEvents
  /\ cv = NoConversion

\* ------------------------------------------------------------------------
\* The actions
\* ------------------------------------------------------------------------
\* sync_boxes() up to the two load_box() calls of box_opened2(): the state
\* is loaded, both boxes are opened
\* The driver of side t completes its oldest command and the callback of
\* the sync engine runs to its end
Step(w, t) ==
  LET cmd == Head(w.q[t])
      w0 == [w EXCEPT !.q[t] = Tail(@)]
  IN Completion(w0, StoreEffect(w0, t, cmd), t, cmd)

\* The run that continues from w with nothing interrupting it, the drivers
\* completing their commands far side first; and the state file it leaves
RECURSIVE Complete(_)
Complete(w) ==
  IF w.pc # "run" \/ (w.q[F] = << >> /\ w.q[N] = << >>) THEN w
  ELSE Complete(Step(w, IF w.q[F] # << >> THEN F ELSE N))

Outcome(w) ==
  IF w.pc = "written" THEN [ok |-> TRUE, file |-> w.newfile.data]
  ELSE [ok |-> w.pc = "done", file |-> w.statefile]

\* The process as sync_boxes() finds the world, and what load_state() makes
\* of the files
Fresh == [World EXCEPT !.sv = NewSvars, !.q = NoCmds, !.JCount = 0, !.pc = "run"]

Loaded == load_state(Fresh)

Started ==
  IF Loaded.ok THEN box_opened2([Fresh EXCEPT !.sv = Loaded.sv])
  ELSE [Fresh EXCEPT !.pc = "failed"]

StartRun ==
  /\ pc = "idle"
  /\ runs < MaxRuns
  /\ Becomes(Started)
  /\ kind' = IF last = "crash" THEN "resumed" ELSE IF last = "done" THEN "second" ELSE "fresh"
  /\ ref' = IF last = "crash" THEN ref ELSE Outcome(Complete(Started))
  /\ last' = "none"
  /\ disk0' = [journal |-> journal, newfile |-> newfile]
  /\ hs' = [JCount |-> 0, jfp |-> FALSE]
  /\ runs' = runs + 1
  /\ UNCHANGED <<conf, crashes, envs>>
  /\ UNCHANGED drvvars

DriverStep(t) ==
  /\ pc = "run"
  /\ q[t] # << >>
  /\ Becomes(Step(World, t))
  /\ hs' = [JCount |-> JCount, jfp |-> sv.jfp]
  /\ UNCHANGED <<conf, disk0, runs, crashes, envs, last, kind, ref>>
  /\ UNCHANGED drvvars

\* save_state(): rename( svars->nname, svars->dname )
Rename ==
  /\ pc = "written"
  /\ statefile' = newfile.data
  /\ newfile' = NoNewFile
  /\ pc' = "renamed"
  /\ UNCHANGED <<conf, journal, store, sv, q, rng, JCount, hs, disk0, runs, crashes, envs,
                 last, kind, ref>>
  /\ UNCHANGED drvvars

\* save_state(): unlink( svars->jname )
Unlink ==
  /\ pc = "renamed"
  /\ journal' = NoJournal
  /\ pc' = "done"
  /\ UNCHANGED <<conf, statefile, newfile, store, sv, q, rng, JCount, hs, disk0, runs,
                 crashes, envs, last, kind, ref>>
  /\ UNCHANGED drvvars

\* sync_bail(): the run is over and the process exits
Finish ==
  /\ pc \in {"done", "failed", "aborted"}
  /\ pc' = "idle"
  /\ sv' = NewSvars
  /\ q' = NoCmds
  /\ last' = IF pc = "done" THEN "done" ELSE "failed"
  /\ UNCHANGED <<conf, statefile, journal, newfile, store, rng, JCount, hs, disk0, runs,
                 crashes, envs, kind, ref>>
  /\ UNCHANGED drvvars

\* The mailbox of side t after the server has carried out the first n of
\* the commands that were sent to it
Executed(w0, t, n) ==
  LET RECURSIVE go(_, _)
      go(w, k) == IF k > n THEN w ELSE go(StoreEffect(w, t, w0.q[t][k]), k + 1)
  IN go(w0, 1).store[t]

\* The process dies.  c of the journal entries of this run have reached the
\* journal; of the commands issued up to then, the servers have carried out
\* n[F] and n[N] without the process having seen the response.  how tells
\* how far the creation of the two files got if no entry was written.
CrashNow(limit) ==
  /\ pc \in {"run", "written", "renamed"}
  /\ crashes < limit
  /\ \E c \in hs.JCount..JCount, how \in {"none", "created", "header"} :
       LET base == Len(journal.ents) - JCount
           sent(t) == {k \in 0..Len(q[t]) : \A j \in 1..k : q[t][j].jpos <= c}
           early == c = 0 /\ JCount > 0 /\ ~hs.jfp
       IN /\ pc = "renamed" => c = JCount
          /\ ~early => how = "header"
          /\ (early /\ sv.replayed) => how = "header"
          /\ journal' = IF c = JCount THEN journal
                        ELSE IF early /\ how # "header" THEN disk0.journal
                        ELSE [exists |-> TRUE, ents |-> SubSeq(journal.ents, 1, base + c)]
          /\ newfile' = IF c = JCount THEN newfile
                        ELSE IF early /\ how = "none" THEN disk0.newfile
                        ELSE [exists |-> TRUE, data |-> NoStateFile]
          /\ \E nf \in sent(F), nn \in sent(N) :
               store' = Pair(Executed(World, F, nf), Executed(World, N, nn))
  /\ pc' = "idle"
  /\ sv' = NewSvars
  /\ q' = NoCmds
  /\ crashes' = crashes + 1
  /\ last' = IF pc = "renamed" THEN "committed" ELSE "crash"
  /\ UNCHANGED <<conf, statefile, rng, JCount, hs, disk0, runs, envs, kind, ref>>
  /\ UNCHANGED drvvars

Crash == CrashNow(MaxCrashes)

\* ------------------------------------------------------------------------
\* Other clients of the mailboxes, active while no run is in progress
\* ------------------------------------------------------------------------
\* The content identifiers in use
Cids == UNION {{store[t].msgs[k].cid : k \in 1..Len(store[t].msgs)}
                 \cup {store[t].trash[k] : k \in 1..Len(store[t].trash)} : t \in Side}

MaxCid == IF Cids = {} THEN 0 ELSE CHOOSE c \in Cids : \A x \in Cids : x <= c

\* The process does not run; a run has been made and one is to follow
BetweenRuns == pc = "idle" /\ envs < MaxEnv /\ 0 < runs /\ runs < MaxRuns

\* A client toggles a flag of a message
EnvFlag ==
  /\ BetweenRuns
  /\ \E t \in Side, f \in AllFlags : \E k \in 1..Len(store[t].msgs) :
       store' = [store EXCEPT ![t].msgs[k].flags =
                   IF f \in @ THEN @ \ {f} ELSE @ \cup {f}]
  /\ envs' = envs + 1
  /\ last' = "env"
  /\ UNCHANGED <<conf, statefile, journal, newfile, sv, q, rng, pc, JCount, hs, disk0,
                 runs, crashes, kind, ref>>
  /\ UNCHANGED drvvars

\* A client expunges a message
EnvExpunge ==
  /\ BetweenRuns
  /\ \E t \in Side : \E k \in 1..Len(store[t].msgs) :
       store' = [store EXCEPT ![t].msgs =
                   SubSeq(@, 1, k - 1) \o SubSeq(@, k + 1, Len(@))]
  /\ envs' = envs + 1
  /\ last' = "env"
  /\ UNCHANGED <<conf, statefile, journal, newfile, sv, q, rng, pc, JCount, hs, disk0,
                 runs, crashes, kind, ref>>
  /\ UNCHANGED drvvars

\* A new message is delivered
EnvDeliver ==
  /\ BetweenRuns
  /\ \E t \in Side :
       store' = [store EXCEPT ![t].msgs =
                   Append(@, StoreMsg(store[t].uidnext, {}, 0, 1, MaxCid + 1, FALSE)),
                              ![t].uidnext = @ + 1]
  /\ envs' = envs + 1
  /\ last' = "env"
  /\ UNCHANGED <<conf, statefile, journal, newfile, sv, q, rng, pc, JCount, hs, disk0,
                 runs, crashes, kind, ref>>
  /\ UNCHANGED drvvars

Next ==
  \/ StartRun
  \/ \E t \in Side : DriverStep(t)
  \/ Rename
  \/ Unlink
  \/ Finish
  \/ Crash
  \/ EnvFlag
  \/ EnvExpunge
  \/ EnvDeliver

Spec == Init /\ [][Next]_vars

\* The runs of a channel that expunges both sides, interrupted once more
InitExpunge ==
  /\ Init
  /\ "EXPUNGE" \in conf.ops[F]
  /\ conf.max_messages = 0
  /\ ~conf.trash[F]

CrashAgain ==
  /\ crashes = MaxCrashes
  /\ CrashNow(MaxCrashes + 1)

NextTwice ==
  \/ Next
  \/ CrashAgain

SpecTwice == InitExpunge /\ [][NextTwice]_vars

\* The runs of a channel with the default "Sync All", which upgrades
\* placeholders: the far side holds a message too big for the near side
UpgradeOps == FullOps \cup {"UPGRADE"}

InitUpgrade ==
  /\ InitSync([conf |-> [Plain EXCEPT !.ops = Pair(UpgradeOps, UpgradeOps),
                                      !.max_size = Pair(UINT_MAX, 1)],
               store |-> Pair(Box(<<Mail(1, {}, 2)>>, 2), Box(<< >>, 1))])
  /\ imap = NewImap(1)
  /\ box = NoBox
  /\ lk = NoLock
  /\ buf = NoBuffers
  /\ ch = NoChannel
  /\ ev = NoEvents
  /\ cv = NoConversion

SpecUpgrade == InitUpgrade /\ [][Next]_vars

\* The runs of a channel that expunges both sides and moves what it expunges
\* on the far side to a trash folder, while new messages are propagated in
\* both directions: the trash folder of the far side itself, or that of the
\* near side for the messages that were never propagated
TrashScenarios ==
  { [conf |-> [Plain EXCEPT !.ops = Pair(ExpOps, ExpOps), !.trash = Pair(TRUE, FALSE)],
     store |-> Pair(Box(<<Mail(1, {"T"}, 1), Mail(2, {}, 1)>>, 3),
                    Box(<<Mail(1, {}, 1)>>, 2))],
    [conf |-> [Plain EXCEPT !.ops = Pair(ExpOps, ExpOps), !.trash = Pair(FALSE, TRUE),
                            !.trash_remote_new = Pair(FALSE, TRUE)],
     store |-> Pair(Box(<<Mail(1, {"T"}, 1), Mail(2, {}, 1)>>, 3), Box(<< >>, 1))] }

InitTrash ==
  /\ \E s \in TrashScenarios : InitSync(s)
  /\ imap = NewImap(1)
  /\ box = NoBox
  /\ lk = NoLock
  /\ buf = NoBuffers
  /\ ch = NoChannel
  /\ ev = NoEvents
  /\ cv = NoConversion

SpecTrash == InitTrash /\ [][Next]_vars

\* Channels that expunge both sides and keep one trash folder, with mailboxes
\* whose messages all differ in content, so that a content that is twice in
\* the trash folder was moved there twice from the same message or its copy:
\* the far side trashes its own messages, or the near side trashes its own
\* and the new ones of the far side
ResumeScenarios ==
  { [conf |-> [Plain EXCEPT !.ops = Pair(ExpOps, ExpOps), !.trash = Pair(TRUE, FALSE)],
     store |-> Pair(Box(<<Mail(1, {"T"}, 1), Mail(2, {}, 1)>>, 3), Box(<< >>, 1))],
    [conf |-> [Plain EXCEPT !.ops = Pair(ExpOps, ExpOps), !.trash = Pair(FALSE, TRUE),
                            !.trash_remote_new = Pair(FALSE, TRUE)],
     store |-> Pair(Box(<<Mail(1, {"T"}, 1), Mail(2, {}, 1)>>, 3), Box(<< >>, 1))] }

InitResume ==
  /\ \E s \in ResumeScenarios : InitSync(s)
  /\ imap = NewImap(1)
  /\ box = NoBox
  /\ lk = NoLock
  /\ buf = NoBuffers
  /\ ch = NoChannel
  /\ ev = NoEvents
  /\ cv = NoConversion

SpecResume == InitResume /\ [][Next]_vars

\* Channels that keep at most one message on one side or the other, with two
\* read messages waiting on the opposite side
SideScenarios ==
  { [conf |-> [Plain EXCEPT !.max_messages = 1, !.expire_side = N],
     store |-> Pair(Box(<<Mail(1, {"S"}, 1), Mail(2, {"S"}, 1)>>, 3), Box(<< >>, 1))],
    [conf |-> [Plain EXCEPT !.max_messages = 1, !.expire_side = F],
     store |-> Pair(Box(<< >>, 1), Box(<<Mail(1, {"S"}, 1), Mail(2, {"S"}, 1)>>, 3))] }

InitSide ==
  /\ \E s \in SideScenarios : InitSync(s)
  /\ imap = NewImap(1)
  /\ box = NoBox
  /\ lk = NoLock
  /\ buf = NoBuffers
  /\ ch = NoChannel
  /\ ev = NoEvents
  /\ cv = NoConversion

SpecSide == InitSide /\ [][Next]_vars

\* Channels that keep at most one message on the expire side
ExpireScenarios ==
  { \* a message deleted on the far side is undeleted there later
    [conf |-> [Plain EXCEPT !.max_messages = 1],
     store |-> Pair(Box(<<Mail(1, {"S", "T"}, 1), Mail(2, {"S"}, 1)>>, 3), Box(<< >>, 1))] }

InitExpire ==
  /\ \E s \in ExpireScenarios : InitSync(s)
  /\ imap = NewImap(1)
  /\ box = NoBox
  /\ lk = NoLock
  /\ buf = NoBuffers
  /\ ch = NoChannel
  /\ ev = NoEvents
  /\ cv = NoConversion

SpecExpire == InitExpire /\ [][Next]_vars

\* ------------------------------------------------------------------------
\* The expiration block of box_loaded() on its own
\* ------------------------------------------------------------------------
\* MaxRecs paired messages, all loaded: the far side numbered them 1, 2, ...
\* and the near side in the order near, which differs where messages
\* were propagated in both directions; flags[k] are the flags of pair k
RankMsgs(near, flags, t) ==
  [u \in 1..MaxRecs |->
     LET k == IF t = F THEN u ELSE CHOOSE j \in 1..MaxRecs : near[j] = u
     IN [uid |-> u, flags |-> flags[k], status |-> {"FLAGS"}, tuid |-> 0, size |-> 1,
         msgid |-> 0, srec |-> k]]

RankSvars(near, flags) ==
  [NewSvars EXCEPT
     !.srecs = [k \in 1..MaxRecs |->
                  [NewSrec EXCEPT !.uid = Pair(k, near[k]), !.msg = Pair(k, near[k]),
                                  !.flags = flags[k]]],
     !.order = [k \in 1..MaxRecs |-> k],
     !.msgs = Pair(RankMsgs(near, flags, F), RankMsgs(near, flags, N)),
     !.ops = Pair(FullOps, FullOps),
     !.opts = Pair({"FLAGS", "PAIRED"}, {"FLAGS", "PAIRED"}),
     !.uidval = Pair(1, 1),
     !.maxuid = Pair(MaxRecs, MaxRecs), !.newmaxuid = Pair(MaxRecs, MaxRecs),
     !.existing = TRUE, !.any_expiring = TRUE]

RankStore(near, flags, t) ==
  Box([u \in 1..MaxRecs |->
         LET k == IF t = F THEN u ELSE CHOOSE j \in 1..MaxRecs : near[j] = u
         IN StoreMsg(u, flags[k], 0, 1, k, FALSE)], MaxRecs + 1)

InitRank ==
  /\ \E max \in 1..(MaxRecs - 1), unread \in {-1, 0, 1}, xt \in Side :
       conf = [Plain EXCEPT !.max_messages = max, !.expire_unread = unread,
                            !.expire_side = xt]
  /\ \E near \in {f \in [1..MaxRecs -> 1..MaxRecs] : \A u \in 1..MaxRecs : \E k \in 1..MaxRecs : f[k] = u},
        flags \in [1..MaxRecs -> SUBSET (F_SEEN \cup F_FLAGGED)] :
       /\ sv = RankSvars(near, flags)
       /\ store = Pair(RankStore(near, flags, F), RankStore(near, flags, N))
       /\ statefile = [exists |-> TRUE, uidval |-> Pair(1, 1),
                       maxuid |-> Pair(MaxRecs, MaxRecs), maxxfuid |-> 0,
                       recs |-> [k \in 1..MaxRecs |->
                                   FormatStateRec(RankSvars(near, flags).srecs[k])]]
  /\ journal = NoJournal
  /\ newfile = NoNewFile
  /\ q = NoCmds
  /\ rng = 0
  /\ pc = "loaded"
  /\ JCount = 0
  /\ hs = [JCount |-> 0, jfp |-> FALSE]
  /\ disk0 = [journal |-> NoJournal, newfile |-> NoNewFile]
  /\ runs = 1
  /\ crashes = 0
  /\ envs = 0
  /\ last = "none"
  /\ kind = "second"
  /\ ref = [ok |-> TRUE, file |-> NoStateFile]
  /\ imap = NewImap(1)
  /\ box = NoBox
  /\ lk = NoLock
  /\ buf = NoBuffers
  /\ ch = NoChannel
  /\ ev = NoEvents
  /\ cv = NoConversion

\* box_loaded(): the records in excess are marked and their expiration is
\* begun, or the mailbox is skipped for its unread messages
Expire ==
  /\ pc = "loaded"
  /\ Bind(Expiration(World), LAMBDA r :
       Becomes([r.w EXCEPT !.pc = IF r.failed THEN "failed" ELSE "marked"]))
  /\ UNCHANGED <<conf, hs, disk0, runs, crashes, envs, last, kind, ref>>
  /\ UNCHANGED drvvars

NextRank == Expire

SpecRank == InitRank /\ [][NextRank]_vars

\* ------------------------------------------------------------------------
\* A mailbox whose UIDVALIDITY changed
\* ------------------------------------------------------------------------
\* The pairs (k, k) of an earlier run.  The first nmatch of them still have
\* both messages, of the next ngone the message of side t is gone, and one
\* more pair, the first or the last by UID, is odd: its messages differ
\* ("mismatch"), the one of side t or its partner has no Message-ID ("noid",
\* "partnernoid"), or the partner is gone ("partnergone").
UidvalKind(nmatch, ngone, odd, first, k) ==
  LET j == IF odd # "none" /\ first THEN k - 1 ELSE k
  IN IF j = 0 \/ j > nmatch + ngone THEN odd
     ELSE IF j <= nmatch THEN "match" ELSE "gone"

UidvalPairs(nmatch, ngone, odd) == nmatch + ngone + (IF odd = "none" THEN 0 ELSE 1)

\* The mailbox of side s, side t being the one whose UIDVALIDITY changed;
\* the far side has received one more message
UidvalBox(s, t, nmatch, ngone, odd, first) ==
  LET n == UidvalPairs(nmatch, ngone, odd)
      what(k) == UidvalKind(nmatch, ngone, odd, first, k)
      here(k) == IF s = t THEN what(k) # "gone" ELSE what(k) # "partnergone"
      cid(k) == IF s = t THEN IF what(k) = "noid" THEN 0 ELSE k
                ELSE IF what(k) = "partnernoid" THEN 0
                ELSE IF what(k) = "mismatch" THEN n + 1 + k ELSE k
      old == SelectSeq([k \in 1..n |-> StoreMsg(k, {}, 0, 1, cid(k), FALSE)],
                       LAMBDA sm : here(sm.uid))
      new == IF s = F THEN <<StoreMsg(n + 1, {}, 0, 1, n + 1, FALSE)>> ELSE << >>
  IN [msgs |-> old \o new, uidnext |-> n + 1 + Len(new),
      uidvalidity |-> IF s = t THEN 2 ELSE 1, trash |-> << >>]

InitUidval ==
  /\ conf = Plain
  /\ \E t \in Side, nmatch \in 0..MaxMatch, ngone \in 0..MaxGone, first \in BOOLEAN,
        odd \in {"none", "mismatch", "noid", "partnernoid", "partnergone"} :
       /\ (odd = "none" => first)
       /\ store = Pair(UidvalBox(F, t, nmatch, ngone, odd, first),
                       UidvalBox(N, t, nmatch, ngone, odd, first))
       /\ statefile = [exists |-> TRUE, uidval |-> Pair(1, 1),
                       maxuid |-> Pair(UidvalPairs(nmatch, ngone, odd),
                                       UidvalPairs(nmatch, ngone, odd)),
                       maxxfuid |-> 0,
                       recs |-> [k \in 1..UidvalPairs(nmatch, ngone, odd) |->
                                   FormatStateRec([NewSrec EXCEPT !.uid = Pair(k, k)])]]
  /\ journal = NoJournal
  /\ newfile = NoNewFile
  /\ sv = NewSvars
  /\ q = NoCmds
  /\ rng = 0
  /\ pc = "idle"
  /\ JCount = 0
  /\ hs = [JCount |-> 0, jfp |-> FALSE]
  /\ disk0 = [journal |-> NoJournal, newfile |-> NoNewFile]
  /\ runs = MaxRuns - 1
  /\ crashes = 0
  /\ envs = 0
  /\ last = "done"
  /\ kind = "second"
  /\ ref = [ok |-> TRUE, file |-> NoStateFile]
  /\ imap = NewImap(1)
  /\ box = NoBox
  /\ lk = NoLock
  /\ buf = NoBuffers
  /\ ch = NoChannel
  /\ ev = NoEvents
  /\ cv = NoConversion

NextUidval ==
  \/ StartRun
  \/ \E t \in Side : DriverStep(t)
  \/ Rename
  \/ Unlink
  \/ Finish

SpecUidval == InitUidval /\ [][NextUidval]_vars

\* ------------------------------------------------------------------------
\* The user of an IMAP store and its server
\* ------------------------------------------------------------------------
InitImap ==
  /\ InitSync([conf |-> Plain, store |-> Pair(Box(<< >>, 1), Box(<< >>, 1))])
  /\ \E m \in 1..MaxInProgress : imap = NewImap(m)
  /\ box = NoBox
  /\ lk = NoLock
  /\ buf = NoBuffers
  /\ ch = NoChannel
  /\ ev = NoEvents
  /\ cv = NoConversion

\* The user has a message fetched, flags set or a message stored; it asks
\* for nothing once it has called cancel_cmds()
Submit ==
  /\ imap.cancel = "no"
  /\ imap.nsub < MaxCmds
  /\ \E what \in {"FETCH", "STORE", "APPEND"} :
       imap' = submit_imap_cmd([imap EXCEPT !.nsub = @ + 1], NewImapCmd(imap.nsub + 1, what))
  /\ UNCHANGED <<syncvars, box, lk, buf, ch, ev, cv>>

Commit ==
  /\ imap.cancel = "no"
  /\ imap.num_wait_check > 0
  /\ imap.nsub < 2 * MaxCmds
  /\ imap' = imap_commit_cmds(imap)
  /\ UNCHANGED <<syncvars, box, lk, buf, ch, ev, cv>>

Cancel ==
  /\ imap.cancel = "no"
  /\ imap' = imap_cancel_cmds(imap)
  /\ UNCHANGED <<syncvars, box, lk, buf, ch, ev, cv>>

\* The server answers a command
Response ==
  /\ imap.cancel # "called"
  /\ \E k \in 1..Len(imap.in_progress), answer \in {"OK", "NO", "TRYCREATE"} :
       /\ answer = "TRYCREATE" => imap.in_progress[k].create
       /\ imap' = imap_socket_read(imap, k, answer)
  /\ UNCHANGED <<syncvars, box, lk, buf, ch, ev, cv>>

NextImap ==
  \/ Submit
  \/ Commit
  \/ Cancel
  \/ Response

SpecImap == InitImap /\ [][NextImap]_vars

\* A server that completes the commands in the order it received them: the
\* tagged response is that to the command that has been in flight longest
ResponseInOrder ==
  /\ imap.cancel # "called"
  /\ imap.in_progress # << >>
  /\ \E answer \in {"OK", "NO", "TRYCREATE"} :
       /\ answer = "TRYCREATE" => imap.in_progress[1].create
       /\ imap' = imap_socket_read(imap, 1, answer)
  /\ UNCHANGED <<syncvars, box, lk, buf, ch, ev, cv>>

NextPipeline ==
  \/ Submit
  \/ Commit
  \/ Cancel
  \/ ResponseInOrder

SpecPipeline == InitImap /\ [][NextPipeline]_vars

\* ------------------------------------------------------------------------
\* An IMAP store and its socket: commands with literals, continuation
\* requests, the trash mailbox, and a socket that takes the bytes when it
\* can
\* ------------------------------------------------------------------------
InitSend ==
  /\ InitSync([conf |-> Plain, store |-> Pair(Box(<< >>, 1), Box(<< >>, 1))])
  /\ \E m \in 1..MaxInProgress, caps \in {{}, {"LITERAL+"}, {"LITERAL-"}} :
       imap = [NewImap(m) EXCEPT !.caps = caps]
  /\ box = NoBox
  /\ lk = NoLock
  /\ buf = NoBuffers
  /\ ch = NoChannel
  /\ ev = NoEvents
  /\ cv = NoConversion

\* The process has not died of an assert() and the store was not given up
Alive == ~imap.aborted /\ ~imap.bad

\* The commands the user of the driver and the driver itself submit
SendCmds(id) ==
  {imap_fetch_msg(id, uid) : uid \in 1..MaxFetchUid}
    \cup {imap_store_msg(id, tt, len, cmdl) :
            tt \in BOOLEAN, len \in {1, 5 * WRITE_CHUNK_SIZE},
            cmdl \in {1, WRITE_CHUNK_SIZE - 1}}
    \cup {imap_trash_msg(id), imap_authenticate(id)}

SubmitCmd ==
  /\ Alive
  /\ imap.nsub < MaxSends
  /\ \E cmd \in SendCmds(imap.nsub + 1) :
       imap' = submit_imap_cmd([imap EXCEPT !.nsub = @ + 1], cmd)
  /\ UNCHANGED <<syncvars, box, lk, buf, ch, ev, cv>>

\* The wakeup of socket_write() fires
FakeCb ==
  /\ Alive
  /\ imap.fake
  /\ \E n \in 0..(imap.write_buf + 1) : imap' = socket_fake_cb(imap, n)
  /\ UNCHANGED <<syncvars, box, lk, buf, ch, ev, cv>>

\* The socket can be written to again
FdCb ==
  /\ Alive
  /\ imap.pollout
  /\ \E n \in 0..imap.write_buf : imap' = socket_fd_cb(imap, n)
  /\ UNCHANGED <<syncvars, box, lk, buf, ch, ev, cv>>

\* The server asks for the literal of the command it received last, or for
\* the next step of the authentication once it has the last one
Continuation ==
  /\ Alive
  /\ imap.in_progress # << >>
  /\ LET cmdp == imap.in_progress[Len(imap.in_progress)]
     IN \/ cmdp.data
        \/ cmdp.cont /\ imap.write_buf = 0 /\ imap.append_buf = 0
  /\ imap' = imap_socket_read_cont(imap)
  /\ UNCHANGED <<syncvars, box, lk, buf, ch, ev, cv>>

\* The server answers a command; it says NO [TRYCREATE] before it takes a
\* literal, and may add [APPENDUID v uid] to OK
Tagged ==
  /\ Alive
  /\ \E k \in 1..Len(imap.in_progress), answer \in {"OK", "NO", "TRYCREATE"},
        uid \in 0..MaxFetchUid :
       LET cmdp == imap.in_progress[k]
       IN /\ answer = "TRYCREATE" => cmdp.create /\ (cmdp.kind = "APPEND" => cmdp.data)
          /\ answer = "OK" => ~cmdp.data
          /\ uid # 0 => answer = "OK"
          /\ imap' = imap_socket_read_tagged(imap, k, answer, uid)
  /\ UNCHANGED <<syncvars, box, lk, buf, ch, ev, cv>>

\* The server sends an untagged OK with [APPENDUID v uid]
UntaggedOk ==
  /\ Alive
  /\ \E uid \in 1..MaxFetchUid : imap' = imap_socket_read_ok(imap, uid)
  /\ UNCHANGED <<syncvars, box, lk, buf, ch, ev, cv>>

\* The server sends the body of a message
FetchBody ==
  /\ Alive
  /\ \E uid \in 1..MaxFetchUid : imap' = fetch_rsp_done(imap, uid)
  /\ UNCHANGED <<syncvars, box, lk, buf, ch, ev, cv>>

NextSend ==
  \/ SubmitCmd
  \/ FakeCb
  \/ FdCb
  \/ Continuation
  \/ Tagged
  \/ UntaggedOk
  \/ FetchBody

SpecSend == InitSend /\ [][NextSend]_vars

\* ------------------------------------------------------------------------
\* The selected mailbox of an IMAP store, its server and the other clients
\* ------------------------------------------------------------------------
\* The sequence number of the i-th message of the list
NumOf(msgs, i) == IF msgs.cursor_ptr = 0 THEN msgs.list[i].seq ELSE SumSeq(msgs.list, i)

\* The messages of the list that are not dead, with their sequence numbers
LiveNums(msgs) ==
  {<<msgs.list[i].uid, NumOf(msgs, i)>> :
     i \in {k \in 1..Len(msgs.list) : "DEAD" \notin msgs.list[k].status}}

\* A mailbox with messages is selected and is being loaded
InitBox ==
  /\ InitSync([conf |-> Plain, store |-> Pair(Box(<< >>, 1), Box(<< >>, 1))])
  /\ imap = NewImap(1)
  /\ lk = NoLock
  /\ buf = NoBuffers
  /\ ch = NoChannel
  /\ ev = NoEvents
  /\ cv = NoConversion
  /\ \E S \in SUBSET (1..(MaxUid - 1)) :
       box = [NoBox EXCEPT !.srv = SetToSortedSeq(S), !.uidnext = MaxUid,
                           !.phase = "loading"]

\* parse_fetch_rsp() in FetchMsgs: the server tells of a message the store
\* does not know yet, for load_box() or for find_new_msgs()
Fetch ==
  /\ box.phase \in {"loading", "finding"}
  /\ \E seq \in 1..Len(box.srv), flags \in {{}, F_DELETED, F_FORWARDED \cup F_DELETED} :
       /\ \A i \in 1..Len(box.msgs.list) :
             /\ box.msgs.list[i].uid # box.srv[seq]
             /\ box.phase = "finding" => box.msgs.list[i].uid < box.srv[seq]
       /\ box' = NoExpunge([box EXCEPT !.msgs = imap_new_msg(imap_ensure_absolute(@), seq,
                                                             box.srv[seq], flags)])
  /\ UNCHANGED <<syncvars, imap, lk, buf, ch, ev, cv>>

\* imap_submit_load_p3(): load_box() is done
Loaded_p3 ==
  /\ box.phase = "loading"
  /\ box' = NoExpunge([box EXCEPT !.msgs = imap_ensure_relative(@), !.phase = "loaded"])
  /\ UNCHANGED <<syncvars, imap, lk, buf, ch, ev, cv>>

\* imap_find_new_msgs() and imap_find_new_msgs_p4()
FindNew ==
  /\ \/ box.phase = "loaded" /\ box' = NoExpunge([box EXCEPT !.phase = "finding"])
     \/ box.phase = "finding" /\ box' = NoExpunge([box EXCEPT !.phase = "loaded"])
  /\ UNCHANGED <<syncvars, imap, lk, buf, ch, ev, cv>>

\* record_expunge(): another client expunged the message with number s
Expunge ==
  /\ box.phase \in {"loading", "loaded", "finding", "marked"}
  /\ ~box.msgs.failed
  /\ \E s \in 1..Len(box.srv) :
       box' = [box EXCEPT !.srv = SubSeq(@, 1, s - 1) \o SubSeq(@, s + 1, Len(@)),
                          !.msgs = imap_expunge_msg(@, s).msgs,
                          !.last = [s |-> s, nums |-> LiveNums(box.msgs),
                                    ret |-> imap_expunge_msg(box.msgs, s).ret]]
  /\ UNCHANGED <<syncvars, imap, lk, buf, ch, ev, cv>>

\* EXISTS: a message was delivered to the mailbox
Exists ==
  /\ box.phase \in {"loading", "loaded", "finding", "marked"}
  /\ box.uidnext <= MaxUid
  /\ box' = NoExpunge([box EXCEPT !.srv = Append(@, box.uidnext), !.uidnext = @ + 1])
  /\ UNCHANGED <<syncvars, imap, lk, buf, ch, ev, cv>>

\* The first loop of msgs_flags_set(): some of the deleted messages are
\* marked for expunging
MarkExpunge ==
  /\ box.phase = "loaded"
  /\ \E M \in SUBSET {i \in 1..Len(box.msgs.list) :
                         /\ "DEAD" \notin box.msgs.list[i].status
                         /\ Has(box.msgs.list[i].flags, F_DELETED)} :
       box' = NoExpunge([box EXCEPT !.phase = "marked",
                                    !.msgs.list = [i \in 1..Len(@) |->
                                       IF i \in M THEN [@[i] EXCEPT !.status = @ \cup {"EXPUNGE"}]
                                       ELSE @[i]]])
  /\ UNCHANGED <<syncvars, imap, lk, buf, ch, ev, cv>>

\* imap_close_box() of a store with OPEN_UID_EXPUNGE. The enumerator
\* M_EXPUNGE is not in driver.h: its bit is that of F_FORWARDED (the third of
\* the enumeration), of another flag such as F_DELETED, or of no flag
CloseBox ==
  /\ box.phase = "marked"
  /\ \E bit \in {F_FORWARDED, F_DELETED, {}} :
       box' = NoExpunge([box EXCEPT !.phase = "closed", !.bit = bit,
                                    !.ranges = imap_close_box(box.msgs.list, bit)])
  /\ UNCHANGED <<syncvars, imap, lk, buf, ch, ev, cv>>

NextBox ==
  \/ Fetch
  \/ Loaded_p3
  \/ FindNew
  \/ Expunge
  \/ Exists
  \/ MarkExpunge
  \/ CloseBox

SpecBox == InitBox /\ [][NextBox]_vars

\* ------------------------------------------------------------------------
\* sync_state.c: processes that synchronize the same mailbox pair
\* ------------------------------------------------------------------------
InitLock ==
  /\ InitSync([conf |-> Plain, store |-> Pair(Box(<< >>, 1), Box(<< >>, 1))])
  /\ imap = NewImap(1)
  /\ box = NoBox
  /\ lk = NoLock
  /\ buf = NoBuffers
  /\ ch = NoChannel
  /\ ev = NoEvents
  /\ cv = NoConversion

\* lock_state(): open( svars->lname, O_WRONLY | O_CREAT )
lock_state_open(p) ==
  /\ lk.at[p] = "idle"
  /\ lk.inodes < MaxOpens
  /\ lk' = IF lk.file # 0
           THEN [lk EXCEPT !.lfd[p] = lk.file, !.at[p] = "opened"]
           ELSE [lk EXCEPT !.inodes = @ + 1, !.file = lk.inodes + 1,
                           !.lfd[p] = lk.inodes + 1, !.at[p] = "opened"]
  /\ UNCHANGED <<syncvars, imap, box, buf, ch, ev, cv>>

\* lock_state(): fcntl( svars->lfd, F_SETLK ); the run goes on with the lock
\* and gives up without it
lock_state(p) ==
  /\ lk.at[p] = "opened"
  /\ lk' = IF lk.lock[lk.lfd[p]] = 0
           THEN [lk EXCEPT !.lock[lk.lfd[p]] = p, !.at[p] = "running"]
           ELSE [lk EXCEPT !.lfd[p] = 0, !.at[p] = "idle"]
  /\ UNCHANGED <<syncvars, imap, box, buf, ch, ev, cv>>

\* delete_state(): both mailboxes are gone; unlink( svars->lname ) after the
\* state files
delete_state(p) ==
  /\ lk.at[p] = "running"
  /\ lk' = [lk EXCEPT !.file = 0, !.at[p] = "deleted"]
  /\ UNCHANGED <<syncvars, imap, box, buf, ch, ev, cv>>

\* sync_bail(): unlink( svars->lname )
sync_bail(p) ==
  /\ lk.at[p] \in {"running", "deleted"}
  /\ lk' = [lk EXCEPT !.file = 0, !.at[p] = "bailing"]
  /\ UNCHANGED <<syncvars, imap, box, buf, ch, ev, cv>>

\* sync_bail(): close( svars->lfd ) gives the lock up
sync_bail_close(p) ==
  /\ lk.at[p] = "bailing"
  /\ lk' = [lk EXCEPT !.lock[lk.lfd[p]] = 0, !.lfd[p] = 0, !.at[p] = "idle"]
  /\ UNCHANGED <<syncvars, imap, box, buf, ch, ev, cv>>

NextLock ==
  \E p \in 1..MaxProcs :
    \/ lock_state_open(p)
    \/ lock_state(p)
    \/ delete_state(p)
    \/ sync_bail(p)
    \/ sync_bail_close(p)

SpecLock == InitLock /\ [][NextLock]_vars

\* ------------------------------------------------------------------------
\* A run that propagates new messages to an IMAP store and trashes
\* messages of the other side on it
\* ------------------------------------------------------------------------
Sizes(n) == UNION {[1..k -> 1..MaxSize] : k \in 0..n}

InitBuffer ==
  /\ InitSync([conf |-> Plain, store |-> Pair(Box(<< >>, 1), Box(<< >>, 1))])
  /\ imap = NewImap(1)
  /\ box = NoBox
  /\ lk = NoLock
  /\ ch = NoChannel
  /\ ev = NoEvents
  /\ cv = NoConversion
  /\ \E limit \in 1..MaxLimit, sync \in BOOLEAN, new \in Sizes(MaxNew), trash \in Sizes(MaxTrash) :
       buf = [NoBuffers EXCEPT !.limit = limit, !.sync = sync, !.new = new, !.trash = trash]

\* The end of box_loaded(): msgs_flags_set() for both sides, then
\* msgs_copied() for both sides
Propagate ==
  /\ ~buf.started
  /\ buf' = buf_msgs_copied(buf_msgs_flags_set([buf EXCEPT !.started = TRUE], 1))
  /\ UNCHANGED <<syncvars, imap, box, lk, ch, ev, cv>>

\* The other side completes a fetch_msg()
Fetched ==
  /\ buf.fetching # << >>
  /\ buf' = buf_msg_fetched([buf EXCEPT !.fetching = Tail(@)], Head(buf.fetching))
  /\ UNCHANGED <<syncvars, imap, box, lk, ch, ev, cv>>

\* The payload of a store_msg() has been written to the socket
Written ==
  /\ \E k \in 1..Len(buf.storing) :
       /\ buf.storing[k].buffered
       /\ \A j \in 1..(k - 1) : ~buf.storing[j].buffered
       /\ buf' = [buf EXCEPT !.storing[k].buffered = FALSE]
  /\ UNCHANGED <<syncvars, imap, box, lk, ch, ev, cv>>

\* The store completes a store_msg(): done_imap_cmd() frees the payload and
\* calls back
Stored ==
  /\ buf.storing # << >>
  /\ buf' = IF Head(buf.storing).what = "new"
            THEN buf_msg_copied([buf EXCEPT !.storing = Tail(@)])
            ELSE buf_msg_rtrashed([buf EXCEPT !.storing = Tail(@)])
  /\ UNCHANGED <<syncvars, imap, box, lk, ch, ev, cv>>

NextBuffer ==
  \/ Propagate
  \/ Fetched
  \/ Written
  \/ Stored

\* The drivers complete their commands
SpecBuffer == InitBuffer /\ [][NextBuffer]_vars /\ WF_vars(NextBuffer)

\* ------------------------------------------------------------------------
\* A channel with its mailboxes
\* ------------------------------------------------------------------------
Hows == [1..(MaxBoxes + 1) -> {"bad_F", "bad_N", "fail", "open"}]

\* The same for the mailboxes that are left
HowsLeft == [1..(ch.left + 1) -> {"bad_F", "bad_N", "fail", "open"}]

\* Both stores are connected; the channel names its mailboxes (boxlist) or
\* has one pair
InitChannel ==
  /\ InitSync([conf |-> Plain, store |-> Pair(Box(<< >>, 1), Box(<< >>, 1))])
  /\ imap = NewImap(1)
  /\ box = NoBox
  /\ lk = NoLock
  /\ buf = NoBuffers
  /\ ev = NoEvents
  /\ cv = NoConversion
  /\ \E n \in 0..MaxBoxes :
       ch = [NoChannel EXCEPT !.boxlist = n > 0, !.left = n]

\* sync_opened(): do_sync_boxes() is called for the first time
SyncOpened ==
  /\ ch.where = "connected"
  /\ \E hows \in Hows : ch' = do_sync_boxes([ch EXCEPT !.where = "boxes"], hows)
  /\ UNCHANGED <<syncvars, imap, box, lk, buf, ev, cv>>

\* A store reports that it has gone bad while its mailbox is synchronized
StoreBad ==
  /\ ch.active
  /\ \E t \in Side \ ch.canceled, now \in [Side -> BOOLEAN], nested \in BOOLEAN,
        hows \in HowsLeft :
       ch' = done_sync(IF nested THEN sync_deref(store_bad(sync_ref(ch), t, now).c)
                       ELSE store_bad(ch, t, now).c, hows)
  /\ UNCHANGED <<syncvars, imap, box, lk, buf, ev, cv>>

\* cancel_cmds() calls back
CancelDone ==
  /\ ch.active
  /\ \E t \in Side, hows \in HowsLeft :
       /\ "SENT_CANCEL" \in ch.sstate[t] /\ "CANCELED" \notin ch.sstate[t]
       /\ ch' = done_sync(cancel_done(ch, t).c, hows)
  /\ UNCHANGED <<syncvars, imap, box, lk, buf, ev, cv>>

\* A command of a store that was not canceled ends with DRV_BOX_BAD, in a
\* callback of its own or within a call the engine holds a reference for
DriverFail ==
  /\ ch.active
  /\ ch.syncs < MaxSyncs
  /\ \E t \in Side \ ch.canceled, now \in [Side -> BOOLEAN], nested \in BOOLEAN,
        hows \in HowsLeft :
       /\ "CANCELED" \notin ch.sstate[t]
       /\ ch' = done_sync(IF nested THEN sync_deref(check_ret(sync_ref(ch), now).c)
                          ELSE check_ret(ch, now).c, hows)
  /\ UNCHANGED <<syncvars, imap, box, lk, buf, ev, cv>>

\* The synchronization of a mailbox pair ends without a cancellation
BoxDone ==
  /\ ch.active
  /\ ch.sstate = Pair({}, {})
  /\ \E sts \in {{}, SYNC_FAIL}, hows \in HowsLeft :
       ch' = done_sync(sync_deref([ch EXCEPT !.ret = sts]), hows)
  /\ UNCHANGED <<syncvars, imap, box, lk, buf, ev, cv>>

NextChannel ==
  \/ SyncOpened
  \/ StoreBad
  \/ CancelDone
  \/ DriverFail
  \/ BoxDone

SpecChannel == InitChannel /\ [][NextChannel]_vars

\* The drivers complete what they were asked for: cancel_cmds() calls back
\* unless the store is canceled first, and the commands of a run that is
\* not canceled come to their end
SpecChannelFair == SpecChannel /\ WF_vars(CancelDone) /\ WF_vars(BoxDone)

\* ------------------------------------------------------------------------
\* The event loop
\* ------------------------------------------------------------------------
RECURSIVE Registered(_)
Registered(n) == IF n = 0 THEN NoEvents ELSE init_notifier(Registered(n - 1), n)

\* Some notifiers are registered when main_loop() is entered
InitEvents ==
  /\ InitSync([conf |-> Plain, store |-> Pair(Box(<< >>, 1), Box(<< >>, 1))])
  /\ imap = NewImap(1)
  /\ box = NoBox
  /\ lk = NoLock
  /\ buf = NoBuffers
  /\ ch = NoChannel
  /\ \E n \in 1..MaxNotifiers : ev = Registered(n)
  /\ cv = NoConversion

\* event_wait() finds the first wakeup due and calls it
FireWakeup ==
  /\ ev.cur = 0
  /\ Due(ev)
  /\ \E c \in Callbacks(ev) : ev' = event_wait_timer(ev, c)
  /\ UNCHANGED <<syncvars, imap, box, lk, buf, ch, cv>>

\* event_wait() polls: some descriptors become ready, or the deadline of
\* the first wakeup passes
Poll ==
  /\ ev.cur = 0
  /\ ev.notifiers # << >> \/ ev.timers # << >>
  /\ ~Due(ev)
  /\ \E revents \in [1..MaxNotifiers -> {0, 1}], now \in ev.now..MaxNow :
       /\ ev.timers # << >> => now <= ev.timers[1].timeout
       /\ (\A n \in 1..MaxNotifiers : At(ev.notifiers, n) = 0 \/ revents[n] = 0)
            => ev.timers # << >> /\ now = ev.timers[1].timeout
       /\ ev' = event_wait_poll(ev, revents, now)
  /\ UNCHANGED <<syncvars, imap, box, lk, buf, ch, cv>>

\* The loop over the notifiers looks at the next one and calls it if its
\* descriptor is ready
DispatchNotifier ==
  /\ ev.cur # 0
  /\ \E c \in Callbacks(ev) : ev' = event_wait_dispatch(ev, c)
  /\ UNCHANGED <<syncvars, imap, box, lk, buf, ch, cv>>

NextEvents ==
  \/ FireWakeup
  \/ Poll
  \/ DispatchNotifier

SpecEvents == InitEvents /\ [][NextEvents]_vars

\* ------------------------------------------------------------------------
\* Mailbox names: a name is encoded and the result decoded; byte strings
\* that need not be UTF-8 are encoded; strings that need not be modified
\* UTF-7 are decoded
\* ------------------------------------------------------------------------
\* U+0009, &, A, U+007F, U+00E4, U+20AC, U+FFFF, U+1F602, U+100000, U+10FFFF
CodePoints == {9, 38, 65, 127, 228, 8364, 65535, 128514, 1048576, 1114111}

\* UTF-8 of RFC 3629
Utf8(cp) ==
  IF cp < 128 THEN <<cp>>
  ELSE IF cp < 2048 THEN <<192 + (cp \div 64), 128 + (cp % 64)>>
  ELSE IF cp < 65536
  THEN <<224 + (cp \div 4096), 128 + ((cp \div 64) % 64), 128 + (cp % 64)>>
  ELSE <<240 + (cp \div 262144), 128 + ((cp \div 4096) % 64), 128 + ((cp \div 64) % 64),
         128 + (cp % 64)>>

RECURSIVE Utf8Name(_)
Utf8Name(cps) == IF cps = << >> THEN << >> ELSE Utf8(Head(cps)) \o Utf8Name(Tail(cps))

Strings(S, n) == UNION {[1..k -> S] : k \in 0..n}

Names == {Utf8Name(cps) : cps \in Strings(CodePoints, MaxName)}

\* A, lone tail bytes, C0 (overlong), C3 A4 (U+00E4), ED A0 (a surrogate),
\* E0 (overlong with a low tail), F4 90 (above U+10FFFF), F8
ByteStrings ==
  Strings({65, 128, 192, 195, 164, 237, 160, 224, 244, 144, 248}, MaxBytes)
    \cup Strings({244, 144, 128}, MaxBytes + 1)

\* &, -, A, 2 and 3 (with A: the surrogates D800 and DC00), !, an 8-bit
\* character; and shift sequences of the three base64 characters
Utf7Strings ==
  Strings({38, 45, 65, 50, 51, 33, 228}, MaxUtf7)
    \cup {<<38>> \o body \o tail : body \in Strings({65, 50, 51}, MaxShift),
                                  tail \in {<< >>, <<45>>}}

\* Valid UTF-8: shortest forms of U+0000..U+10FFFF without the surrogates
RECURSIVE ValidUtf8From(_, _)
ValidUtf8From(str, p) ==
  LET b == str[p]
      tail(k) == p + k <= Len(str) /\ 128 <= str[p + k] /\ str[p + k] <= 191
      cp3 == (b % 16) * 4096 + (str[p + 1] % 64) * 64 + (str[p + 2] % 64)
      cp4 == (b % 8) * 262144 + (str[p + 1] % 64) * 4096 + (str[p + 2] % 64) * 64
               + (str[p + 3] % 64)
  IN IF p > Len(str) THEN TRUE
     ELSE IF b < 128 THEN ValidUtf8From(str, p + 1)
     ELSE IF 194 <= b /\ b <= 223 THEN tail(1) /\ ValidUtf8From(str, p + 2)
     ELSE IF 224 <= b /\ b <= 239
     THEN /\ tail(1) /\ tail(2)
          /\ cp3 >= 2048 /\ ~(55296 <= cp3 /\ cp3 <= 57343)
          /\ ValidUtf8From(str, p + 3)
     ELSE IF 240 <= b /\ b <= 244
     THEN /\ tail(1) /\ tail(2) /\ tail(3)
          /\ cp4 >= 65536 /\ cp4 <= 1114111
          /\ ValidUtf8From(str, p + 4)
     ELSE FALSE

ValidUtf8(str) == ValidUtf8From(str, 1)

\* The alphabet of modified base64 (RFC 3501, 5.1.3)
Base64 == <<65, 66, 67, 68, 69, 70, 71, 72, 73, 74, 75, 76, 77, 78, 79, 80, 81, 82, 83,
            84, 85, 86, 87, 88, 89, 90, 97, 98, 99, 100, 101, 102, 103, 104, 105, 106,
            107, 108, 109, 110, 111, 112, 113, 114, 115, 116, 117, 118, 119, 120, 121,
            122, 48, 49, 50, 51, 52, 53, 54, 55, 56, 57, 43, 44>>

Base64Value(chr) == (CHOOSE i \in 1..64 : Base64[i] = chr) - 1

\* The 16-bit units a shift sequence holds, and the bits behind the last
RECURSIVE Sextets(_)
Sextets(body) ==
  IF body = << >> THEN << >> ELSE Bits(Base64Value(Head(body)), 6) \o Sextets(Tail(body))

Units(body) ==
  [k \in 1..((6 * Len(body)) \div 16) |-> Num(SubSeq(Sextets(body), 16 * k - 15, 16 * k))]

\* No surrogate without its partner
RECURSIVE Paired(_)
Paired(units) ==
  IF units = << >> THEN TRUE
  ELSE IF 55296 <= units[1] /\ units[1] <= 56319
  THEN /\ Len(units) >= 2 /\ 56320 <= units[2] /\ units[2] <= 57343
       /\ Paired(SubSeq(units, 3, Len(units)))
  ELSE ~(56320 <= units[1] /\ units[1] <= 57343) /\ Paired(Tail(units))

\* Well-formed modified UTF-7: 7-bit characters, &-, and terminated shift
\* sequences of base64 characters that hold whole code points
RECURSIVE WellFormedFrom(_, _)
WellFormedFrom(str, p) ==
  IF p > Len(str) THEN TRUE
  ELSE IF str[p] >= 128 THEN FALSE
  ELSE IF str[p] # 38 THEN WellFormedFrom(str, p + 1)
  ELSE LET ends == {e0 \in (p + 1)..Len(str) : str[e0] = 45}
           dash == CHOOSE e \in ends : \A x \in ends : e <= x
           body == SubSeq(str, p + 1, dash - 1)
       IN /\ ends # {}
          /\ \A k \in 1..Len(body) : \E i \in 1..64 : Base64[i] = body[k]
          /\ body # << >> => /\ (6 * Len(body)) % 16 < 6
                             /\ Len(Units(body)) >= 1
                             /\ Paired(Units(body))
          /\ WellFormedFrom(str, dash + 1)

WellFormedUtf7(str) == WellFormedFrom(str, 1)

NoResult == [sts |-> "none", out |-> << >>]

InitUtf7 ==
  /\ InitSync([conf |-> Plain, store |-> Pair(Box(<< >>, 1), Box(<< >>, 1))])
  /\ imap = NewImap(1)
  /\ box = NoBox
  /\ lk = NoLock
  /\ buf = NoBuffers
  /\ ch = NoChannel
  /\ ev = NoEvents
  /\ \/ \E n \in Names :
          cv = [phase |-> "utf8", from |-> "name", buf |-> n, enc |-> NoResult,
                res |-> NoResult]
     \/ \E b \in ByteStrings :
          cv = [phase |-> "utf8", from |-> "bytes", buf |-> b, enc |-> NoResult,
                res |-> NoResult]
     \/ \E u \in Utf7Strings :
          cv = [phase |-> "utf7", from |-> "utf7", buf |-> u, enc |-> NoResult,
                res |-> NoResult]

\* imap_utf8_to_utf7( name )
ToUtf7 ==
  /\ cv.phase = "utf8"
  /\ cv' = [cv EXCEPT !.phase = "encoded", !.enc = imap_utf8_to_utf7(cv.buf)]
  /\ UNCHANGED <<syncvars, imap, box, lk, buf, ch, ev>>

\* imap_utf7_to_utf8() of a string from the server, or of what the encoder
\* made of a name
FromUtf7 ==
  /\ \/ cv.phase = "utf7"
     \/ cv.phase = "encoded" /\ cv.from = "name" /\ cv.enc.sts = "ok"
  /\ cv' = [cv EXCEPT !.phase = "decoded",
                      !.res = imap_utf7_to_utf8(IF cv.phase = "utf7" THEN cv.buf
                                                ELSE cv.enc.out)]
  /\ UNCHANGED <<syncvars, imap, box, lk, buf, ch, ev>>

NextUtf7 ==
  \/ ToUtf7
  \/ FromUtf7

SpecUtf7 == InitUtf7 /\ [][NextUtf7]_vars

\* ------------------------------------------------------------------------
\* A fetched message is converted and stored: msg_fetched() for messages
\* put together from header names, line ends and text, under every
\* combination of line ends, TUID injection, placeholder and line length
\* ------------------------------------------------------------------------
Pieces == {XTuidHdr, <<83, 117, 98, 106, 101, 99, 116, 58>>, <<97>>, <<32>>, <<CR>>, <<LF>>}

RECURSIVE Joined(_)
Joined(ps) == IF ps = << >> THEN << >> ELSE Head(ps) \o Joined(Tail(ps))

Messages == {Joined(ps) : ps \in Strings(Pieces, MaxPieces)}

SomeTuid == [i \in 1..TUIDL |-> 116]

InitCvt ==
  /\ InitSync([conf |-> Plain, store |-> Pair(Box(<< >>, 1), Box(<< >>, 1))])
  /\ imap = NewImap(1)
  /\ box = NoBox
  /\ lk = NoLock
  /\ buf = NoBuffers
  /\ ch = NoChannel
  /\ ev = NoEvents
  /\ \E m \in Messages, scr \in BOOLEAN, tcr \in BOOLEAN, srec \in BOOLEAN,
        minimal \in BOOLEAN, flagged \in BOOLEAN, max_line_len \in 0..MaxLineLen,
        cut_lines \in BOOLEAN :
       /\ minimal => srec
       /\ flagged => minimal
       /\ cv = [phase |-> "fetched", scr |-> scr, tcr |-> tcr,
                vars |-> [data |-> m, srec |-> srec, minimal |-> minimal,
                          tuid |-> SomeTuid,
                          flags |-> IF flagged THEN F_FLAGGED ELSE {}],
                gc |-> [max_line_len |-> max_line_len, cut_lines |-> cut_lines],
                res |-> [sts |-> "none"], cb |-> "none", ret |-> {}, log |-> << >>]

\* msg_fetched( DRV_OK, vars ), not canceled: the conversion and what
\* follows it
ConvertFetched ==
  /\ cv.phase = "fetched"
  /\ cv' = Bind(IF cv.vars.srec \/ cv.scr # cv.tcr
                THEN copy_msg_convert(cv.scr, cv.tcr, cv.vars, cv.gc)
                ELSE [sts |-> "ok", err |-> "", data |-> cv.vars.data,
                      len |-> Len(cv.vars.data), flags |-> cv.vars.flags],
                LAMBDA r :
                  [cv EXCEPT
                     !.phase = IF r.sts \in {"ok", "error"} THEN "returned" ELSE "aborted",
                     !.res = r,
                     !.log = IF r.sts = "error" THEN Append(@, r.err) ELSE @,
                     !.ret = IF r.sts = "error" THEN @ \cup SYNC_FAIL ELSE @,
                     !.cb = IF r.sts = "error" THEN "COPY_NOGOOD"
                            ELSE IF r.sts = "ok" THEN "store_msg" ELSE "none"])
  /\ UNCHANGED <<syncvars, imap, box, lk, buf, ch, ev>>

NextCvt == ConvertFetched

SpecCvt == InitCvt /\ [][NextCvt]_vars


\* ------------------------------------------------------------------------
\* Properties
\* ------------------------------------------------------------------------
\* The number of entries of the journal that the running process had read
\* or written when it had written n entries itself
JournalAt(n) ==
  IF sv.jfp \/ sv.replayed THEN Len(journal.ents) - (JCount - n) ELSE 0

\* The run is over, one way or the other
Ended == pc \in {"renamed", "done", "failed", "aborted"}

\* C1: a run that resumes an interrupted run, the mailboxes being touched by
\* nobody else in between, completes and leaves the state file that the
\* interrupted run would have left had it not been interrupted.
C1_ResumedRunYieldsSameState ==
  (kind = "resumed" /\ Ended) => (pc \in {"renamed", "done"} /\ statefile = ref.file)

\* The command cmd for side t changes what the state file will hold: it
\* stores the copy of a message for a sync record, or it changes flags that
\* the record then takes over
ChangesState(cmd) ==
  \/ cmd.op = "store_msg" /\ cmd.srec # 0
  \/ /\ cmd.op = "set_msg_flags"
     /\ LET srec == sv.srecs[cmd.srec]
        IN /\ ~Has(srec.status, {"DELETE", "PURGE"})
           /\ \E t \in Side : ((srec.flags \cup srec.aflags[t]) \ srec.dflags[t]) # srec.flags

\* The journal entry that tells of the command cmd for side t is e
TellsOf(e, cmd) ==
  LET srec == sv.srecs[cmd.srec]
  IN IF cmd.op = "store_msg" THEN e.c = "#" /\ e.n = cmd.tuid
     ELSE e.c \in {"*", "~"} /\ e.a = srec.uid[F] /\ e.b = srec.uid[N]

\* C2 as stated: every command in a driver's hands that changes what the
\* state file will hold had its journal entry written before it was
\* dispatched.
C2_JournaledBeforeDispatch ==
  pc = "run" =>
    \A t \in Side : \A k \in 1..Len(q[t]) :
      ChangesState(q[t][k]) =>
        \E j \in 1..JournalAt(q[t][k].jpos) : TellsOf(journal.ents[j], q[t][k])

\* C2 amended: the TUID of a message being propagated is journaled before
\* the command that stores the copy is dispatched; a flag change is journaled
\* by the callback that completes the command, while the run is still going.
C2_JournaledBeforeOrOnCompletion ==
  pc = "run" =>
    \A t \in Side :
      /\ \A k \in 1..Len(q[t]) :
           (q[t][k].op = "store_msg" /\ q[t][k].srec # 0) =>
             \E j \in 1..JournalAt(q[t][k].jpos) : TellsOf(journal.ents[j], q[t][k])
      /\ (q[t] # << >> /\ Head(q[t]).op = "set_msg_flags" /\ ChangesState(Head(q[t]))
          /\ sv.srecs[Head(q[t]).srec].aflags[Inv(t)] = {}
          /\ sv.srecs[Head(q[t]).srec].dflags[Inv(t)] = {}) =>
           LET w == Step(World, t)
           IN /\ w.JCount > JCount
              /\ \E j \in (Len(w.journal.ents) - (w.JCount - JCount) + 1)..Len(w.journal.ents) :
                   TellsOf(w.journal.ents[j], Head(q[t]))

Duplicates(t) ==
  \E j, k \in 1..Len(store[t].msgs) :
    /\ j # k
    /\ store[t].msgs[j].cid = store[t].msgs[k].cid
    /\ store[t].msgs[j].dummy = store[t].msgs[k].dummy

\* C4: a run that resumes an interrupted run never stores a second copy of
\* a message the interrupted run has stored already.
C4_NoSecondCopy ==
  kind = "resumed" => \A t \in Side : ~Duplicates(t)

\* C5: replaying the journal never applies an entry to a dead record.
C5_NeverAppliedToDead ==
  (pc = "idle" /\ runs < MaxRuns) => ~Loaded.applied_dead

\* C6: the run never holds and never writes a maxuid or a maxxfuid below
\* that of the committed state file.
C6_MaxuidMonotonic ==
  pc \in {"run", "written", "renamed", "done"} =>
    /\ \A t \in Side : sv.maxuid[t] >= statefile.maxuid[t]
    /\ sv.maxxfuid >= statefile.maxxfuid
    /\ pc = "written" =>
         /\ \A t \in Side : newfile.data.maxuid[t] >= statefile.maxuid[t]
         /\ newfile.data.maxxfuid >= statefile.maxxfuid

\* No two records of the sequence recs, dead ones apart, hold the same
\* non-zero UID on the same side
UniqueUids(recs, live) ==
  \A i, j \in live :
    i # j => \A t \in Side : recs[i].uid[t] = 0 \/ recs[i].uid[t] # recs[j].uid[t]

IsDead(srec) == "DEAD" \in srec.status

\* C7: no two live sync records hold the same non-zero UID on the same side,
\* neither in the running process nor in the state file.
C7_UidsUnique ==
  /\ UniqueUids(sv.srecs, {i \in 1..Len(sv.srecs) : ~IsDead(sv.srecs[i])})
  /\ UniqueUids(statefile.recs, 1..Len(statefile.recs))
  /\ UniqueUids(newfile.data.recs, 1..Len(newfile.data.recs))

\* C8: a record written to the state file has a UID on one side at least
\* unless it is expired, and after pruning a record without any UID is dead.
C8_WrittenRecordsHaveUid ==
  /\ \A k \in 1..Len(statefile.recs) :
       LET rec == statefile.recs[k]
       IN rec.uid[F] # 0 \/ rec.uid[N] # 0 \/ rec.m2 = "~"
  /\ pc \in {"written", "renamed"} =>
       \A i \in 1..Len(sv.srecs) :
         (sv.srecs[i].uid[F] = 0 /\ sv.srecs[i].uid[N] = 0) => IsDead(sv.srecs[i])

\* The command cmd for side t changes the mailbox
Mutating(t, cmd) ==
  \/ cmd.op \in {"set_msg_flags", "store_msg", "trash_msg"}
  \/ cmd.op = "close_box" /\ \E k \in 1..Len(store[t].msgs) : "T" \in store[t].msgs[k].flags

\* C9: a run that follows a completed run, nobody having touched the
\* mailboxes, dispatches no command that changes a mailbox, writes no
\* journal and does not replace the state file.
C9_SecondRunIdle ==
  (kind = "second" /\ pc # "idle") =>
    /\ \A t \in Side : \A k \in 1..Len(q[t]) : ~Mutating(t, q[t][k])
    /\ journal = disk0.journal
    /\ pc \notin {"written", "renamed"}

\* C10: cancel_cmds() completes every command that was queued and not sent
\* with CANCELED, and its callback is called only when every command that
\* was in flight has been completed.
C10_CancelAfterCompletions ==
  /\ imap.cancel # "no" => \A id \in imap.queued : imap.done[id] = RESP_CANCEL
  /\ imap.cancel = "called" => \A id \in imap.flight : imap.done[id] # ""

\* The commands submitted with wait_check, and the CHECK commands
WaitChecked == {id \in 1..(3 * MaxCmds) : imap.sub[id] = "STORE"}
Checks == {id \in 1..(3 * MaxCmds) : imap.sub[id] = "CHECK"}

CompletedBefore(a, b) ==
  \E i, j \in 1..Len(imap.log) : i < j /\ imap.log[i] = a /\ imap.log[j] = b

\* The commands that come without a literal, and those of them that are
\* submitted without wait_check and without high_prio
NoContinuation == {id \in 1..(3 * MaxCmds) : imap.sub[id] \in {"FETCH", "STORE", "CHECK", "CREATE"}}
Direct == {id \in 1..(3 * MaxCmds) : imap.sub[id] \in {"FETCH", "CHECK"}}

Covered(u) == \E r \in 1..Len(box.ranges) : box.ranges[r].first <= u /\ u <= box.ranges[r].last

\* C13: the ranges of the UID EXPUNGE commands of close_box() cover every
\* message marked for expunging, and no message of the mailbox that is
\* alive and not marked.
C13_ExpungesExactlyMarked ==
  box.phase = "closed" =>
    /\ \A i \in 1..Len(box.msgs.list) :
         "DEAD" \notin box.msgs.list[i].status =>
           (Covered(box.msgs.list[i].uid) <=> "EXPUNGE" \in box.msgs.list[i].status)
    /\ \A k \in 1..Len(box.srv) :
         (\A i \in 1..Len(box.msgs.list) : box.msgs.list[i].uid # box.srv[k])
           => ~Covered(box.srv[k])

\* C14: whatever EXPUNGE, FETCH and EXISTS responses came, converting the
\* list in relative form to absolute sequence numbers and back yields the
\* same list, and the messages it holds alive have the sequence numbers
\* they have on the server.
C14_RoundTrip ==
  /\ box.msgs.cursor_ptr # 0 =>
       imap_ensure_relative(imap_ensure_absolute(box.msgs)).list = box.msgs.list
  /\ ~box.msgs.failed =>
       \A n \in LiveNums(box.msgs) : n[2] \in 1..Len(box.srv) /\ box.srv[n[2]] = n[1]

\* C15: imap_expunge_msg(s) marks Dead exactly the live known message with
\* number s, none if there is none, and lowers by one the number of every
\* live message that was above s, leaving those below.
C15_ExpungeMsg ==
  box.last.s # 0 =>
    LET s == box.last.s
        target == {n \in box.last.nums : n[2] = s}
        now == LiveNums(box.msgs)
    IN /\ ~box.msgs.failed
       /\ box.last.ret = (IF target = {} THEN 0 ELSE (CHOOSE n \in target : TRUE)[1])
       /\ \A n \in box.last.nums :
            CASE n[2] = s -> \A x \in now : x[1] # n[1]
              [] n[2] > s -> <<n[1], n[2] - 1>> \in now
              [] OTHER -> n \in now

\* C16: two runs never operate on the state of the same mailbox pair at the
\* same time; a run that starts while another holds the lock gives up.
C16_OneRunAtATime ==
  \A p, r \in 1..MaxProcs : (lk.at[p] = "running" /\ lk.at[r] = "running") => p = r

\* C17: a propagation of new messages that BufferLimit has paused is
\* resumed: every message is dispatched in the end and the run gets to
\* close the mailboxes.
C17_PausedResumes ==
  (buf.started /\ "SENT_NEW" \notin buf.state)
    ~> ("SENT_NEW" \in buf.state /\ "CLOSING" \in buf.state)

\* C18: once a store has reported STORE_BAD, no further mailbox of the
\* channel is synchronized and no driver operation is issued on the store.
C18_NothingAfterStoreBad == ch.used = 0

\* The null timers are the first of the wakeup queue
NullTimersFirst ==
  \A i, j \in 1..Len(ev.timers) :
    ev.timers[j].timeout = 0 /\ i < j => ev.timers[i].timeout = 0

\* C19 as stated: no readiness callback runs while a zero-timeout wakeup is
\* queued.
C19_NoCallbackWhileNullTimer == ev.call.n # 0 => ev.call.zeros = {}

\* C19: a wakeup armed with timeout 0 is at the head of the wakeup queue,
\* before every wakeup with a deadline, and poll() is not called while one
\* is queued: a readiness callback finds only those zero-timeout wakeups
\* queued that callbacks of the same dispatch have armed.
C19_NullTimersBeforePoll ==
  /\ NullTimersFirst
  /\ ev.call.n # 0 => ev.call.zeros \subseteq ev.call.armed

\* C20: after a callback has removed a notifier during the dispatch, no
\* callback of a removed notifier is called, every callback gets the
\* revents its own descriptor was polled with, and no further callback is
\* called in this dispatch.
C20_RemovalEndsDispatch ==
  ev.call.n # 0 =>
    /\ ev.call.n \notin ev.call.removed
    /\ ev.call.m = ev.polled[ev.call.n]
    /\ ev.call.removed = {}

\* The new messages for side t have all been sent and stored
NewDrained(t) == "SENT_NEW" \in sv.state[t] /\ sv.new_pending[t] = 0

\* C31 as stated: while a trash operation of a side is in flight, the
\* propagation of new messages has drained in both directions.
C31_TrashAfterNewDrained ==
  \A t \in Side : (pc = "run" /\ sv.trash_pending[t] > 0) => NewDrained(F) /\ NewDrained(N)

\* C31, amended: a trash operation of a side is in flight only after the flag
\* updates of that side have completed; the mailbox of a side is closed only
\* after the new messages for both sides have drained, and its trash too.
C31_TrashAfterFlagsCloseAfterNew ==
  \A t \in Side :
    pc = "run" =>
      /\ sv.trash_pending[t] > 0 =>
           "SENT_FLAGS" \in sv.state[t] /\ sv.flags_pending[t] = 0
      /\ "CLOSING" \in sv.state[t] =>
           /\ "FOUND_NEW" \in sv.state[t] /\ NewDrained(F) /\ NewDrained(N)
           /\ "SENT_TRASH" \in sv.state[t] /\ sv.trash_pending[t] = 0
           /\ "SENT_FLAGS" \in sv.state[Inv(t)] /\ sv.flags_pending[Inv(t)] = 0

\* C32: when save_state() has written the new state file, no command is in
\* flight on either side: the drivers have completed every command they
\* were given, and no flag update, copy or trash operation is pending.
C32_CommittedWhenQuiet ==
  pc \in {"written", "renamed"} =>
    \A t \in Side :
      /\ q[t] = << >>
      /\ sv.flags_pending[t] = 0 /\ sv.new_pending[t] = 0 /\ sv.trash_pending[t] = 0
      /\ {"SENT_FLAGS", "SENT_NEW", "FOUND_NEW", "SENT_TRASH", "CLOSED"} \subseteq sv.state[t]

\* The Expire and Expired bits of a status
ExpireBits(status) == status \cap {"EXPIRE", "EXPIRED"}

\* The journal entries among the first n that set the logged status of the
\* pair (a, b), and the bits the last of them holds
StatusEntries(ents, n, a, b) ==
  {k \in 1..n : ents[k].c = "~" /\ ents[k].a = a /\ ents[k].b = b}

LastStatus(ents, n, a, b) ==
  LET E == StatusEntries(ents, n, a, b)
  IN IF E = {} THEN {"none"}
     ELSE ExpireBits(ents[CHOOSE k \in E : \A x \in E : x <= k].s)

\* The message of the expire side of record srec is deleted or gone
DeletedOnExpireSide(st, srec) ==
  \A k \in 1..Len(st.msgs) :
    st.msgs[k].uid = srec.uid[conf.expire_side] => Has(st.msgs[k].flags, F_DELETED)

\* The deletion of an expiration in flight: the journal held the Expire bit
\* and not the Expired bit when the command was issued
ExpireLoggedFirst(jn, cmds, ss, jcount) ==
  \A k \in 1..Len(cmds) :
    LET cmd == cmds[k]
        srec == ss.srecs[cmd.srec]
    IN (/\ cmd.op = "set_msg_flags" /\ Has(cmd.add, F_DELETED)
        /\ ~Has(srec.status, {"DELETE", "PURGE", "DEAD"})
        /\ ExpireOngoing(srec.status) /\ "NEXPIRE" \in srec.status)
       => LastStatus(jn.ents, Len(jn.ents) - jcount + cmd.jpos, srec.uid[F], srec.uid[N])
            = {"EXPIRE"}

\* C33: expiring a message is a two-phase commit.  (1) While the command
\* that deletes the message on the expire side is in flight, the last entry
\* the journal held for the record when the command was issued has the Expire
\* bit and not the Expired bit.  (2) A step that journals both bits for a
\* paired record leaves the message of the expire side deleted or gone.
\* (3) When the flag command of a record with a transaction pending
\* completes, the transaction is over: Expire and Expired both equal the
\* wanted state; if the pending transaction went the other way, Expired is
\* unchanged and Expire is set back to it; the journal holds the new bits.
C33_ExpireTwoPhase ==
  [][(pc = "run" /\ pc' = "run") =>
       LET xt == conf.expire_side
       IN /\ ExpireLoggedFirst(journal', q'[xt], sv', JCount')
          /\ \A k \in (Len(journal.ents) + 1)..Len(journal'.ents) :
               LET e == journal'.ents[k]
               IN (e.c = "~" /\ {"EXPIRE", "EXPIRED"} \subseteq e.s /\ e.a # 0 /\ e.b # 0)
                  => DeletedOnExpireSide(store'[xt], [uid |-> Pair(e.a, e.b)])
          /\ (/\ q[xt] # << >>
              /\ Head(q[xt]).op = "set_msg_flags"
              /\ sv' = Step(World, xt).sv
              /\ q' = Step(World, xt).q
              /\ ExpireOngoing(sv.srecs[Head(q[xt]).srec].status)
              /\ ~Has(sv.srecs[Head(q[xt]).srec].status, {"DELETE", "PURGE"}))
             => LET i == Head(q[xt]).srec
                    old == sv.srecs[i].status
                    new == sv'.srecs[i].status
                    wanted == IF "NEXPIRE" \in old THEN {"EXPIRE", "EXPIRED"} ELSE {}
                IN /\ ExpireBits(new) = wanted
                   /\ ("EXPIRE" \in old) # ("NEXPIRE" \in old)
                        => ("EXPIRED" \in new) = ("EXPIRED" \in old)
                   /\ LastStatus(journal'.ents, Len(journal'.ents),
                                 sv.srecs[i].uid[F], sv.srecs[i].uid[N]) = wanted]_vars

\* The records the expiration block marked, the ones it looked at, and the
\* important ones among them
Marked == {i \in 1..Len(sv.srecs) : "NEXPIRE" \in sv.srecs[i].status}

Ranked ==
  {i \in 1..Len(sv.srecs) :
     /\ "DEAD" \notin sv.srecs[i].status
     /\ sv.srecs[i].uid[F] # 0 /\ sv.srecs[i].uid[N] # 0
     /\ sv.srecs[i].msg[conf.expire_side] # 0}

Important(i) == ~Unimportant(World, sv.msgs[conf.expire_side][sv.srecs[i].msg[conf.expire_side]].flags)

\* The records of Ranked that precede i by UID on side t
Older(i, t) == {j \in Ranked : sv.srecs[j].uid[t] < sv.srecs[i].uid[t]}

UidvalChanged(t) ==
  pc = "run" /\ sv.uidval[t] # UIDVAL_BAD /\ sv.uidval[t] # store[t].uidvalidity

BothLoaded(s) == "LOADED" \in s.state[F] /\ "LOADED" \in s.state[N]

\* The Message-IDs of the messages of a pair of the state file (0: no
\* Message-ID; {}: the message is gone)
MsgidsOf(t, k) ==
  {store[t].msgs[m].cid : m \in {j \in 1..Len(store[t].msgs) :
                                   store[t].msgs[j].uid = statefile.recs[k].uid[t]}}

\* The pairs whose messages are both there with the same Message-ID, and
\* the pairs whose message of side t has a Message-ID that its partner,
\* being there, does not have
Matching(t) ==
  {k \in 1..Len(statefile.recs) :
     MsgidsOf(t, k) # {} /\ MsgidsOf(t, k) # {0} /\ MsgidsOf(Inv(t), k) = MsgidsOf(t, k)}

Contradicting(t) ==
  {k \in 1..Len(statefile.recs) :
     /\ MsgidsOf(t, k) # {} /\ MsgidsOf(t, k) # {0}
     /\ MsgidsOf(Inv(t), k) # {} /\ MsgidsOf(Inv(t), k) # MsgidsOf(t, k)}

EnoughMatching(t) ==
  \/ Cardinality(Matching(t)) >= 20
  \/ Cardinality(Matching(t)) * 5 >= Len(statefile.recs) * 4

\* A run that fails on the changed UIDVALIDITY leaves everything as it was,
\* and the mailboxes change only once the UIDVALIDITYs are settled
FailsUntouched ==
  /\ (\E t \in Side : UidvalChanged(t)) /\ pc' = "failed"
       => store' = store /\ statefile' = statefile /\ q' = NoCmds
  /\ (pc = "run" /\ store' # store) => sv.uidval = sv.newuidval

\* C35 as stated: when both mailboxes are loaded and the UIDVALIDITY of
\* side t has changed, the run goes on if and only if at least 20 pairs
\* match or at least 80% of the pairs do; otherwise it fails with nothing
\* propagated.
C35_AcceptedIfEnoughMatch ==
  [][/\ \A t \in Side :
          (UidvalChanged(t) /\ ~BothLoaded(sv) /\ BothLoaded(sv'))
            => (pc' # "failed" <=> EnoughMatching(t))
     /\ FailsUntouched]_vars

\* C35, amended: the run goes on if and only if no pair contradicts (both
\* messages there, the one of side t with a Message-ID its partner does not
\* have) and at least 20 pairs match or at least 80% of the pairs do;
\* otherwise it fails with nothing propagated.
C35_AcceptedIfNoneContradicts ==
  [][/\ \A t \in Side :
          (UidvalChanged(t) /\ ~BothLoaded(sv) /\ BothLoaded(sv'))
            => (pc' # "failed" <=> (Contradicting(t) = {} /\ EnoughMatching(t)))
     /\ FailsUntouched]_vars

\* The number of copies of the content c in the trash folder of side s
Copies(s, c) == Cardinality({k \in 1..Len(store[s].trash) : store[s].trash[k] = c})

\* The UIDs of side t whose trashing the journal records
Recorded(t) ==
  {journal.ents[k].b : k \in {x \in 1..Len(journal.ents) :
                                journal.ents[x].c = "T" /\ journal.ents[x].a = t}}

\* The content of the message of side t with the UID u, 0 if there is none
CidOf(t, u) ==
  LET C == {k \in 1..Len(store[t].msgs) : store[t].msgs[k].uid = u}
  IN IF C = {} THEN 0 ELSE store[t].msgs[CHOOSE k \in C : TRUE].cid

\* C36 as stated: no message is moved to a trash folder twice, wherever the
\* run that trashes it is interrupted and resumed
C36_TrashedOnce ==
  \A s \in Side : \A k \in 1..Len(store[s].trash) : Copies(s, store[s].trash[k]) = 1

\* C36: a message whose trashing the journal records is not moved to a trash
\* folder again, neither in the same run nor in one that resumes it
C36_RecordedNotTrashedAgain ==
  [][\A t \in Side : \A u \in Recorded(t) :
       CidOf(t, u) # 0 => \A s \in Side : Copies(s, CidOf(t, u))' <= Copies(s, CidOf(t, u))]_vars

\* C37: in a run of sync_boxes() cancel_cmds() is called at most once for a
\* store and never for one that store_bad() was called for, however often
\* cancel_sync() is called
C37_SecondCancelSuppressed ==
  /\ ch.late = 0
  /\ ch.again = 0
  /\ \A t \in Side : ch.cancels[t] <= 1

\* The calls of sync_boxes() that have called back: all of them but the one
\* that is in work, which holds the one reference that is left
CalledBack ==
  /\ ch.boxes_done = ch.begun - (IF ch.active THEN 1 ELSE 0)
  /\ ch.ref_count = (IF ch.active THEN 1 ELSE 0)

TrashInWork ==
  LET forTrash(cmd) == cmd.to_trash \/ (cmd.orig_cmd # << >> /\ cmd.orig_cmd[1].to_trash)
  IN \/ \E k \in 1..Len(imap.in_progress) : forTrash(imap.in_progress[k])
     \/ \E k \in 1..Len(imap.pending) :
          imap.pending[k].kind = "CREATE" /\ forTrash(imap.pending[k])

\* Nothing is in flight and nothing is left to write, and the command at
\* the head of the pending queue waits for the trash mailbox to be checked
TrashQueueStuck ==
  /\ Alive
  /\ imap.trashnc = "TrashChecking"
  /\ imap.in_progress = << >>
  /\ imap.write_buf = 0 /\ imap.append_buf = 0
  /\ imap.pending # << >>
  /\ imap.pending[1].to_trash

\* C38: the trash mailbox is being checked only while the command that
\* checks it, or the CREATE it led to, is in work; so no command for the
\* trash mailbox is left at the head of the pending queue with nothing in
\* flight
C38_CheckingEnds ==
  /\ (Alive /\ imap.trashnc = "TrashChecking") => TrashInWork
  /\ ~TrashQueueStuck

\* C40 as stated: wherever a run may die with its journal on disk, replaying
\* that journal gives the maxxfuid the run holds there, whichever side is the
\* expire side.
Interruptible == pc = "run" /\ JCount > 0 /\ journal.exists /\ newfile.exists

C40_ReplayedAsHeld ==
  Interruptible => load_state(World).ok /\ load_state(World).sv.maxxfuid = sv.maxxfuid

\* C21 as stated: decoding the modified UTF-7 encoding of a valid name
\* returns the name.
C21_RoundTrip ==
  (cv.phase = "decoded" /\ cv.from = "name") => cv.res = [sts |-> "ok", out |-> cv.buf]

\* C22 as stated: the encoder fails on every byte string that is not valid
\* UTF-8, and the decoder fails on every string that is not well-formed
\* modified UTF-7.
C22_MalformedRejected ==
  /\ (cv.phase = "encoded" /\ ~ValidUtf8(cv.buf)) => cv.enc.sts = "error"
  /\ (cv.phase = "decoded" /\ cv.from = "utf7" /\ ~WellFormedUtf7(cv.buf))
       => cv.res.sts = "error"

\* C23 as stated: whatever the message and the configuration, the
\* conversion returns: either the converted message, which is stored, or
\* an error, which is logged and skips the message; the process never aborts.
C23_ConvertsOrSkips ==
  cv.phase \in {"returned", "aborted"} =>
    \/ cv.res.sts = "ok" /\ cv.cb = "store_msg"
    \/ cv.res.sts = "error" /\ cv.cb = "COPY_NOGOOD" /\ cv.log # << >>

\* C24: a command is put on the wire only while no chunk is queued in the
\* write buffer of the socket, the command in flight last neither expects a
\* continuation request nor still holds its literal, the state of the trash
\* mailbox is not TrashChecking if the command goes to the trash, and fewer
\* than max_in_progress commands are in flight.
C24_SentOnlyWhenSendable ==
  \A k \in 1..Len(imap.in_progress) : imap.in_progress[k].sent = NotSent

\* C25 as stated: a command that creates its mailbox on NO [TRYCREATE] is,
\* once submitted, waiting, in flight, waiting for its mailbox to be created,
\* or was called back exactly once.
C25_RetriedAndCalledBackOnce ==
  \A id \in 1..imap.nsub :
    imap.sub[id] \in {"APPEND", "COPY"} =>
      LET lists == imap.pending \o imap.in_progress \o imap.wait_check
          calls == Cardinality({j \in 1..Len(imap.log) : imap.log[j] = id})
          held == \E k \in 1..Len(lists) :
                    \/ lists[k].id = id
                    \/ lists[k].orig_cmd # << >> /\ lists[k].orig_cmd[1].id = id
      IN IF held THEN calls = 0 ELSE calls = 1

\* C26: no command that waits or is in flight holds a UID that was written
\* from an APPENDUID response code, and the body of a FETCH response goes to
\* a command that fetches the message of that UID.
C26_NoStoredUidInFlight ==
  \A k \in 1..Len(imap.pending \o imap.in_progress) :
    LET cmd == (imap.pending \o imap.in_progress)[k]
    IN /\ ~cmd.appenduid
       /\ cmd.body => cmd.kind = "FETCH"

\* The records of a state file hold no UID above its maxuid
BelowMaxuid(file) ==
  \A k \in 1..Len(file.recs) : \A t \in Side : file.recs[k].uid[t] <= file.maxuid[t]

\* The message of the entry srec is in the hands of the driver of the target
\* side or in the target mailbox: a store_msg() command carries the TUID of
\* the entry, or a message there bears it
Dispatched(srec) ==
  \E t \in Side :
    \/ \E k \in 1..Len(q[t]) : q[t][k].op = "store_msg" /\ q[t][k].tuid = srec.tuid
    \/ \E k \in 1..Len(store[t].msgs) : store[t].msgs[k].tuid = srec.tuid

\* C30 as stated: the TUID of a sync record is non-empty only from the
\* moment the body of its message is dispatched for storing.
C30_TuidOnlyWhileStoring ==
  \A i \in 1..Len(sv.srecs) :
    (~IsDead(sv.srecs[i]) /\ sv.srecs[i].tuid # 0) => Dispatched(sv.srecs[i])

\* C30: a sync record that is not dead has a TUID only while it is Pending
\* and the UID of its copy is not known; a record whose new UID has been
\* recognized, and one that is not Pending, has none.  A record without a
\* TUID that waits for its copy is Pending, never Skipped.
C30_TuidOnlyWhilePending ==
  \A i \in 1..Len(sv.srecs) :
    LET srec == sv.srecs[i]
    IN ~IsDead(srec) =>
         /\ srec.tuid # 0 => /\ "PENDING" \in srec.status
                             /\ (srec.uid[F] = 0) # (srec.uid[N] = 0)
         /\ "PENDING" \in srec.status => "SKIPPED" \notin srec.status

\* C27 as stated: the maxuid of every state file written is at least the
\* UID of every record of the file on that side.
C27_MaxuidBoundsRecords ==
  /\ BelowMaxuid(statefile)
  /\ newfile.exists => BelowMaxuid(newfile.data)

\* A record of the file holds a UID above maxuid only on the side its
\* message was stored to: the other UID is known and maxuid bounds it
SourceBelowMaxuid(file) ==
  \A k \in 1..Len(file.recs) : \A t \in Side :
    file.recs[k].uid[t] > file.maxuid[t] =>
      /\ file.recs[k].uid[Inv(t)] # 0
      /\ file.recs[k].uid[Inv(t)] <= file.maxuid[Inv(t)]

\* C27: the maxuid of every state file written is at least the UID of
\* every message a record was made for on the side it was found on; only
\* the UID a store command returned for its copy may be higher.
C27_MaxuidBoundsSources ==
  /\ SourceBelowMaxuid(statefile)
  /\ newfile.exists => SourceBelowMaxuid(newfile.data)

\* C28: a record that is not dead is pending only while exactly one of its
\* UIDs is known.
\* A copy that carries the TUID of the record is on the side whose UID the
\* record does not know.
C28_PendingHasOneUid ==
  \A i \in 1..Len(sv.srecs) :
    (~IsDead(sv.srecs[i]) /\ "PENDING" \in sv.srecs[i].status) =>
      /\ (sv.srecs[i].uid[F] = 0) # (sv.srecs[i].uid[N] = 0)
      /\ \A t \in Side : \A k \in 1..Len(store[t].msgs) :
           (sv.srecs[i].tuid # 0 /\ store[t].msgs[k].tuid = sv.srecs[i].tuid)
             => sv.srecs[i].uid[t] = 0

Upgrading(srec) == ~IsDead(srec) /\ {"PENDING", "UPGRADE"} \subseteq srec.status
Purging(srec) == ~IsDead(srec) /\ srec.status \cap {"PURGE", "PURGED"} # {}

\* C29 as stated: there is a record pending for its upgrade if and only if
\* there is a record that marks a placeholder for deletion.
C29_UpgradeAndPurgeTogether ==
  (\E i \in 1..Len(sv.srecs) : Upgrading(sv.srecs[i]))
    <=> (\E j \in 1..Len(sv.srecs) : Purging(sv.srecs[j]))

\* C29: a record pending for its upgrade is followed in the list by the
\* entry that holds the UID of its placeholder, which marks it for deletion
\* unless it is dead; such an entry is never the first of the list, it
\* follows the record it was made for.
C29_SiblingsCreatedTogether ==
  /\ \A i \in 1..Len(sv.srecs) : Upgrading(sv.srecs[i]) =>
       LET p == PosOf(sv.order, i)
       IN /\ 0 < p /\ p < Len(sv.order)
          /\ Purging(sv.srecs[sv.order[p + 1]]) \/ IsDead(sv.srecs[sv.order[p + 1]])
          /\ \A t \in Side : sv.srecs[i].uid[t] = 0 <=> sv.srecs[sv.order[p + 1]].uid[t] # 0
  /\ \A j \in 1..Len(sv.srecs) : Purging(sv.srecs[j]) => 1 < PosOf(sv.order, j)

\* Witnesses: states in which the cases of the properties above occur
C2_Witness ==
  /\ pc = "run"
  /\ \E t \in Side : \E k \in 1..Len(q[t]) :
       /\ q[t][k].op = "store_msg" /\ q[t][k].srec # 0
       /\ \E j \in 1..JournalAt(q[t][k].jpos) : TellsOf(journal.ents[j], q[t][k])
  /\ \E t \in Side : q[t] # << >> /\ Head(q[t]).op = "set_msg_flags" /\ ChangesState(Head(q[t]))

C6_Witness ==
  /\ pc = "written" /\ sv.replayed
  /\ statefile.maxuid[F] > 0
  /\ newfile.data.maxuid[F] > statefile.maxuid[F]

C8_Witness ==
  /\ pc = "written"
  /\ \E i \in 1..Len(sv.srecs) : IsDead(sv.srecs[i])
  /\ newfile.data.recs # << >>

C14_Witness ==
  /\ box.msgs.cursor_ptr # 0
  /\ \E i \in 1..Len(box.msgs.list) :
       /\ "DEAD" \in box.msgs.list[i].status /\ box.msgs.list[i].seq > 0
       /\ \E j \in (i + 1)..Len(box.msgs.list) : "DEAD" \notin box.msgs.list[j].status

\* A message the store does not know was expunged below a live one it
\* knows, while the list held a dead message
C15_Witness ==
  /\ box.last.s # 0 /\ box.last.ret = 0
  /\ \E n \in box.last.nums : n[2] > box.last.s
  /\ \E i \in 1..Len(box.msgs.list) : "DEAD" \in box.msgs.list[i].status
\* C19: a null timer has fired although a descriptor that poll() reported
\* ready has not had its callback yet
C19_Witness ==
  /\ ev.fired.w # 0 /\ ev.fired.timeout = 0
  /\ \E n \in 1..MaxNotifiers :
       At(ev.notifiers, n) # 0 /\ ev.polled[n] # 0 /\ n \notin ev.called

\* C20: a callback has removed a notifier and the dispatch has ended although
\* a ready notifier behind it has not been called
C20_Witness ==
  /\ ev.call.n # 0 /\ ev.cur = 0 /\ ev.removed # {}
  /\ \E n \in 1..MaxNotifiers :
       At(ev.notifiers, n) # 0 /\ ev.polled[n] # 0 /\ n \notin ev.called

\* C27: a state file is written in which maxuid bounds the UID a record
\* was made for, while the UID the store command returned is above maxuid
C27_Witness ==
  /\ pc = "written"
  /\ \E k \in 1..Len(newfile.data.recs) : \E t \in Side :
       /\ newfile.data.recs[k].uid[t] > newfile.data.maxuid[t]
       /\ newfile.data.recs[k].uid[Inv(t)] = newfile.data.maxuid[Inv(t)]

\* C28: the record of a placeholder is pending for its upgrade, the UID of
\* the placeholder has moved to the new entry
C28_Witness ==
  \E i \in 1..Len(sv.srecs) :
    /\ ~IsDead(sv.srecs[i])
    /\ {"PENDING", "UPGRADE"} \subseteq sv.srecs[i].status
    /\ \E j \in 1..Len(sv.srecs) : "PURGE" \in sv.srecs[j].status

\* C29: an interrupted run is resumed, the replay of its journal has made
\* the record pending for its upgrade and the entry for the placeholder
C29_Witness ==
  /\ kind = "resumed" /\ sv.replayed /\ pc = "run"
  /\ \E i, j \in 1..Len(sv.srecs) : Upgrading(sv.srecs[i]) /\ Purging(sv.srecs[j])

\* A message that bears the TUID of a pending record is in the target
\* mailbox, the run was interrupted, and the next run has loaded the journal
C30_Witness ==
  /\ kind = "resumed" /\ pc = "run"
  /\ \E i \in 1..Len(sv.srecs) :
       /\ ~IsDead(sv.srecs[i]) /\ sv.srecs[i].tuid # 0
       /\ \E t \in Side : \E k \in 1..Len(store[t].msgs) :
            store[t].msgs[k].tuid = sv.srecs[i].tuid

\* A command is in flight and another waits only because a chunk is queued
\* in the write buffer
C24_Witness ==
  /\ imap.in_progress # << >>
  /\ imap.pending # << >>
  /\ imap.write_buf # 0
  /\ cmd_sendable([imap EXCEPT !.write_buf = 0], Head(imap.pending))

\* An APPEND was called back with the UID of its APPENDUID response code,
\* and the body of the message of that UID of the open mailbox went to the
\* FETCH in flight
C26_Witness ==
  \E id \in 1..imap.nsub :
    /\ imap.sub[id] = "APPEND" /\ imap.done[id] = RESP_OK /\ imap.out_uid[id] # 0
    /\ \E k \in 1..Len(imap.in_progress) :
         /\ imap.in_progress[k].uid = imap.out_uid[id]
         /\ imap.in_progress[k].body

\* C31: a message of the far side is on its way to the trash while a new
\* message is still being copied
C31_Witness ==
  /\ pc = "run"
  /\ sv.trash_pending[F] > 0
  /\ sv.new_pending[N] > 0
  /\ "SENT_FLAGS" \in sv.state[F]

\* C32: the state is committed at the end of a run that moved a message to
\* the trash, copied another and closed both mailboxes
C32_Witness ==
  /\ pc = "written"
  /\ store[F].trash # << >>
  /\ store[N].msgs # << >>
  /\ \E i \in 1..Len(sv.srecs) : sv.srecs[i].uid[F] # 0 /\ sv.srecs[i].uid[N] # 0

C35_Witness ==
  /\ pc = "written"
  /\ newfile.data.uidval # statefile.uidval
  /\ Len(statefile.recs) = 26
  /\ \E t \in Side : store[t].uidvalidity = 2 /\ Cardinality(Matching(t)) = 20
  /\ Len(newfile.data.recs) = 27

\* C36: a resumed run that found the trashing of a message in the journal
\* has passed the trashing of that side; the message is still in its mailbox
\* and once in the trash
C36_Witness ==
  /\ pc = "run"
  /\ sv.replayed
  /\ \E t \in Side :
       /\ "SENT_TRASH" \in sv.state[t]
       /\ \E u \in sv.trashed_msgs[t] :
            /\ CidOf(t, u) # 0
            /\ \E s \in Side : Copies(s, CidOf(t, u)) = 1

\* C37: cancel_sync() was called a second time after a store was reported
\* bad, and the other store got its one cancel_cmds()
C37_Witness ==
  /\ ch.active
  /\ ch.syncs >= 2
  /\ \E t \in Side : t \in ch.bad /\ ch.cancels[t] = 0 /\ ch.cancels[Inv(t)] = 1

====
